---- MODULE Spec2Model ----
(***************************************************************************)
(* The logistics dialogue pipeline of app/services/logistics_service.py    *)
(* (LogisticsService.chat: Perceive -> Reason -> Act -> Respond -> memory   *)
(* append) and the Action stage of app/agents/logistics_action_agent.py.    *)
(*                                                                          *)
(* Python values are modelled as follows.                                   *)
(*   Optional[str]   None is <<>>, the string s is <<s>> (Some(s)).         *)
(*   truthiness      `if x:` / `if not x:` on an Optional[str] is Truthy.   *)
(*   occurred_at_str its text is a tuple of characters, so that the regular *)
(*                   expression is matched character by character.          *)
(*   dict.get(k)     commands are records holding every key the handlers    *)
(*                   read; a key that is absent or null holds None.         *)
(* Chinese literals of the source cannot be written in TLA+ strings; each   *)
(* is replaced by an ASCII tag and quoted in the comment beside it.         *)
(*                                                                          *)
(* Library calls (the agentscope model/agent calls, the httpx client, the   *)
(* SQL-backed memory) are the environment: a call returns one of the        *)
(* outcomes listed for it, chosen nondeterministically.  The only writes to *)
(* the session memory that are modelled are the ones the source performs.   *)
(***************************************************************************)
EXTENDS Integers, Sequences, FiniteSets, TLC

VARIABLES
    initialized,    \* LogisticsService._initialized
    store,          \* the memory database: (user_id, session_id) -> messages
    req,            \* one record per chat task: position and local variables
    actor,          \* the LogisticsActionAgent of each chat task
    started,        \* number of chat calls made so far
    _engine,        \* SessionManager._engine is set
    _sessions,      \* SessionManager._sessions: cache key -> memory object
    memories,       \* the memory objects SessionManager has constructed
    task,           \* one record per SessionManager call in flight
    appended,       \* per pair, the messages add_message and chat were
                    \* asked to add since the pair was last cleared
    calls           \* number of SessionManager and reader calls made so far

smvars == <<_engine, _sessions, memories, task, appended, calls>>

vars == <<initialized, store, req, actor, started, smvars>>

----------------------------------------------------------------------------
(* Bounds *)

\* chat calls made in one behaviour, one after the other
MaxRequests == 2

\* chat calls made in one behaviour of tasks running together
MaxTasks == 2

\* chat tasks that may be in flight together
Slots == {1, 2}

\* SessionManager calls made in one behaviour
MaxCalls == 3

\* SessionManager calls that may be in flight together
Callers == {1, 2}

----------------------------------------------------------------------------
(* Python values *)

None == <<>>
Some(s) == <<s>>

\* bool(x) for x: Optional[str]  (None and "" are falsy)
Truthy(o) == o # None /\ Len(o[1]) > 0

\* x or y
Or(x, y) == IF Truthy(x) THEN x ELSE y

----------------------------------------------------------------------------
(* re.match(r'^\d{4}-\d{2}-\d{2}$', s) *)

AsciiDigits == {"0", "1", "2", "3", "4", "5", "6", "7", "8", "9"}

\* a decimal digit outside ASCII (category Nd), e.g. ARABIC-INDIC DIGIT THREE
UnicodeDigits == {"U+0663"}

\* the pattern between ^ and $: "d" is \d, anything else a literal
date_pattern == <<"d", "d", "d", "d", "-", "d", "d", "-", "d", "d">>

\* one pattern element against one character; \d of a str pattern matches
\* every Unicode decimal digit
ElemMatches(p, c) ==
    IF p = "d" THEN c \in AsciiDigits \cup UnicodeDigits ELSE c = p

\* re.match without the closing $: any text may follow the date
re_match_unanchored(pattern, s) ==
    /\ Len(s) >= Len(pattern)
    /\ \A i \in 1..Len(pattern) : ElemMatches(pattern[i], s[i])

\* re.match anchors at the start; $ matches at the end of the string and
\* just before a newline that ends the string
re_match(pattern, s) ==
    /\ Len(s) >= Len(pattern)
    /\ \A i \in 1..Len(pattern) : ElemMatches(pattern[i], s[i])
    /\ \/ Len(s) = Len(pattern)
       \/ Len(s) = Len(pattern) + 1 /\ s[Len(s)] = "\n"

----------------------------------------------------------------------------
(* Commands, results and outbound calls of the Action stage *)

\* valid_statuses of _execute_modify:
\*   待提货, 运输中, 已送达, 已回单, 异常滞留
valid_statuses ==
    <<"DaiTiHuo", "YunShuZhong", "YiSongDa", "YiHuiDan", "YiChangZhiLiu">>

\* x in list
InList(x, list) == \E i \in 1..Len(list) : list[i] = x

\* the keys of an instruction that the handlers read (data.get(key))
CommandKeys ==
    {"action", "session_id", "order_id", "order_number",
     "transport_status_name", "tracking_id", "node_location",
     "status_description", "occurred_at_str", "operator", "vehicle_plate",
     "remark", "content"}

\* an instruction none of whose keys is set
EmptyCommand ==
    [action |-> None, session_id |-> None, order_id |-> None,
     order_number |-> None, transport_status_name |-> None,
     tracking_id |-> None, node_location |-> None,
     status_description |-> None, occurred_at_str |-> None,
     operator |-> None, vehicle_plate |-> None, remark |-> None,
     content |-> None]

NoError == [kind |-> "none", detail |-> ""]

\* "缺少...（field）": a required parameter is missing
ParameterMissing(field) == [kind |-> "missing", detail |-> field]

\* "无效的运输状态，可选值: ..."
InvalidEnumValue == [kind |-> "invalid_status", detail |-> "transport_status_name"]

\* "日期格式错误，应为 yyyy-MM-dd 格式"
InvalidDateFormat == [kind |-> "date_format", detail |-> "yyyy-MM-dd"]

\* an unknown action reported as a missing parameter
UnknownActionAsMissing(action) == [kind |-> "missing", detail |-> "action"]

\* "未知操作类型: {action}"
UnknownAction(action) ==
    [kind |-> "unknown_action",
     detail |-> IF action = None THEN "None" ELSE action[1]]

\* "指令格式错误: {e}"  (the json.JSONDecodeError branch of reply)
InstructionFormatError == [kind |-> "instruction_format", detail |-> "JSONDecodeError"]

\* str(e) of any other exception caught by reply
Raised(e) == [kind |-> "exception", detail |-> e]

NoData == [kind |-> "none"]

\* {"success": False, "error": ...}: the dict has no other key
Fail(err) ==
    [action |-> None, success |-> FALSE, error |-> err, message |-> None,
     data |-> NoData]

\* a request sent with httpx: keys are the payload keys that are set, val
\* their values (a key that is set may hold None, JSON null)
PayloadKeys ==
    {"orderNo", "orderId", "sessionId", "id", "location",
     "statusDescription", "operator", "vehiclePlate", "occurredAtStr",
     "remark", "content"}

HttpCall(method, path, keys, val) ==
    [method |-> method, path |-> path, keys |-> keys,
     val |-> [k \in PayloadKeys |-> IF k \in keys THEN val[k] ELSE None]]

\* payload[key] = value only `if value:`
IfSet(key, value) == IF Truthy(value) THEN {key} ELSE {}

\* what a handler has done when it first returns or suspends:
\*   api   the _api_* methods it has entered
\*   call  the HTTP request it is waiting for (kind "await")
Returned(result, api) ==
    [kind |-> "return", result |-> result, api |-> api,
     call |-> HttpCall("", "", {}, [k \in PayloadKeys |-> None])]

Awaiting(call, api) ==
    [kind |-> "await", result |-> Fail(NoError), api |-> api, call |-> call]

\* what the business system may answer: response.json() is a JSON object
\* (with "success" true, false or absent), another JSON value, or fails
Responses ==
    {[kind |-> "object", success |-> f] : f \in {"true", "false", "absent"}}
    \cup {[kind |-> "array", success |-> "absent"],
          [kind |-> "not_json", success |-> "absent"]}

\* result.get("success", True) on a JSON object
SuccessOf(resp) == resp.success # "false"

----------------------------------------------------------------------------
(* LogisticsActionAgent: the four handlers up to their HTTP request *)

\* _api_query_logistics: GET .../getOrderInfo?orderNo={order_number}
_api_query_logistics(order_number) ==
    HttpCall("GET", "/orderInfoService/getOrderInfo", {"orderNo"},
             [k \in PayloadKeys |-> order_number])

\* an acknowledgement that does not echo the session_id
_api_modify_logistics_no_echo(session_id, order_id, order_number, transport_status_name) ==
    [kind |-> "modify_ack", success |-> "true", session_id |-> None,
     order_id |-> order_id, order_number |-> order_number,
     transport_status_name |-> transport_status_name]

\* _api_modify_logistics: the HTTP request is commented out; the method
\* returns a fixed acknowledgement that echoes its arguments
_api_modify_logistics(session_id, order_id, order_number, transport_status_name) ==
    [kind |-> "modify_ack", success |-> "true", session_id |-> session_id,
     order_id |-> order_id, order_number |-> order_number,
     transport_status_name |-> transport_status_name]

\* a request that carries every field of the node, null ones included
_api_modify_logistics_node_full(data) ==
    HttpCall("POST", "/orderInfoService/updateLogisticsTrackInfo",
             {"orderId", "sessionId", "id", "location", "statusDescription",
              "operator", "vehiclePlate", "occurredAtStr", "remark", "content"},
             [orderNo |-> None, orderId |-> data.order_id,
              sessionId |-> data.session_id, id |-> data.tracking_id,
              location |-> data.node_location,
              statusDescription |-> data.status_description,
              operator |-> data.operator, vehiclePlate |-> data.vehicle_plate,
              occurredAtStr |-> data.occurred_at_str, remark |-> data.remark,
              content |-> data.content])

\* _api_modify_logistics_node: POST .../updateLogisticsTrackInfo
_api_modify_logistics_node(data) ==
    HttpCall("POST", "/orderInfoService/updateLogisticsTrackInfo",
             {"orderId", "sessionId", "id", "location"}
                \cup IfSet("statusDescription", data.status_description)
                \cup IfSet("operator", data.operator)
                \cup IfSet("vehiclePlate", data.vehicle_plate)
                \cup IfSet("occurredAtStr", data.occurred_at_str)
                \cup IfSet("remark", data.remark)
                \cup IfSet("content", data.content),
             [orderNo |-> None, orderId |-> data.order_id,
              sessionId |-> data.session_id, id |-> data.tracking_id,
              location |-> data.node_location,
              statusDescription |-> data.status_description,
              operator |-> data.operator, vehiclePlate |-> data.vehicle_plate,
              occurredAtStr |-> data.occurred_at_str, remark |-> data.remark,
              content |-> data.content])

\* _api_insert_logistics_node: POST .../insertLogisticsTrackInfo
_api_insert_logistics_node(data) ==
    HttpCall("POST", "/orderInfoService/insertLogisticsTrackInfo",
             {"orderId", "sessionId", "statusDescription", "location",
              "occurredAtStr"}
                \cup IfSet("operator", data.operator)
                \cup IfSet("vehiclePlate", data.vehicle_plate)
                \cup IfSet("remark", data.remark)
                \cup IfSet("content", data.content),
             [orderNo |-> None, orderId |-> data.order_id,
              sessionId |-> data.session_id, id |-> None,
              location |-> data.node_location,
              statusDescription |-> data.status_description,
              operator |-> data.operator, vehiclePlate |-> data.vehicle_plate,
              occurredAtStr |-> data.occurred_at_str, remark |-> data.remark,
              content |-> data.content])

\* a query that falls back on order_id when there is no order_number
_execute_query_by_id(order_number, data) ==
    IF ~Truthy(Or(order_number, data.order_id))
    THEN Returned(Fail(ParameterMissing("order_number")), <<>>)
    ELSE Awaiting(_api_query_logistics(Or(order_number, data.order_id)),
                  <<"_api_query_logistics">>)

_execute_query(order_number, data) ==
    IF ~Truthy(order_number)
    THEN Returned(Fail(ParameterMissing("order_number")), <<>>)   \* "缺少订单号"
    ELSE Awaiting(_api_query_logistics(order_number),
                  <<"_api_query_logistics">>)

\* the acknowledgement and result of a modify that passed the checks
ModifyAccepted(data, order_number) ==
    LET result == _api_modify_logistics(data.session_id, data.order_id,
                      order_number, data.transport_status_name)
    IN  Returned([action |-> Some("modify"), success |-> SuccessOf(result),
                  error |-> NoError, message |-> Some("status updated"),
                  data |-> result],
                 <<"_api_modify_logistics">>)

\* _execute_modify without the valid_statuses check
_execute_modify_any_status(order_number_arg, data) ==
    LET order_number == Or(data.order_number, order_number_arg)
    IN  IF ~Truthy(data.order_id) /\ ~Truthy(order_number)
        THEN Returned(Fail(ParameterMissing("order_id or order_number")), <<>>)
        ELSE IF ~Truthy(data.transport_status_name)
        THEN Returned(Fail(ParameterMissing("transport_status_name")), <<>>)
        ELSE ModifyAccepted(data, order_number)

\* _execute_modify asking for both identifiers (`or` for `and`)
_execute_modify_both_ids(order_number_arg, data) ==
    LET order_number == Or(data.order_number, order_number_arg)
    IN  IF ~Truthy(data.order_id) \/ ~Truthy(order_number)
        THEN Returned(Fail(ParameterMissing("order_id or order_number")), <<>>)
        ELSE IF ~Truthy(data.transport_status_name)
        THEN Returned(Fail(ParameterMissing("transport_status_name")), <<>>)
        ELSE IF ~InList(data.transport_status_name[1], valid_statuses)
        THEN Returned(Fail(InvalidEnumValue), <<>>)
        ELSE ModifyAccepted(data, order_number)

_execute_modify(order_number_arg, data) ==
    LET session_id == data.session_id
        order_id == data.order_id
        order_number == Or(data.order_number, order_number_arg)
        transport_status_name == data.transport_status_name
    IN  IF ~Truthy(order_id) /\ ~Truthy(order_number)
        THEN \* "缺少订单标识（order_id 或 order_number）"
             Returned(Fail(ParameterMissing("order_id or order_number")), <<>>)
        ELSE IF ~Truthy(transport_status_name)
        THEN \* "缺少运输状态（transport_status_name）"
             Returned(Fail(ParameterMissing("transport_status_name")), <<>>)
        ELSE IF ~InList(transport_status_name[1], valid_statuses)
        THEN Returned(Fail(InvalidEnumValue), <<>>)
        ELSE \* _api_modify_logistics is entered; it sends nothing
             ModifyAccepted(data, order_number)

\* _execute_modify_node without the session_id check
_execute_modify_node_any_session(data) ==
    IF ~Truthy(data.order_id)
    THEN Returned(Fail(ParameterMissing("order_id")), <<>>)
    ELSE IF ~Truthy(data.tracking_id)
    THEN Returned(Fail(ParameterMissing("tracking_id")), <<>>)
    ELSE IF ~Truthy(data.node_location)
    THEN Returned(Fail(ParameterMissing("node_location")), <<>>)
    ELSE IF Truthy(data.occurred_at_str)
            /\ ~re_match(date_pattern, data.occurred_at_str[1])
    THEN Returned(Fail(InvalidDateFormat), <<>>)
    ELSE Awaiting(_api_modify_logistics_node(data),
                  <<"_api_modify_logistics_node">>)

_execute_modify_node(data) ==
    IF ~Truthy(data.order_id)
    THEN Returned(Fail(ParameterMissing("order_id")), <<>>)
    ELSE IF ~Truthy(data.session_id)
    THEN Returned(Fail(ParameterMissing("session_id")), <<>>)
    ELSE IF ~Truthy(data.tracking_id)
    THEN Returned(Fail(ParameterMissing("tracking_id")), <<>>)
    ELSE IF ~Truthy(data.node_location)
    THEN Returned(Fail(ParameterMissing("node_location")), <<>>)
    ELSE IF Truthy(data.occurred_at_str)
            /\ ~re_match(date_pattern, data.occurred_at_str[1])
    THEN Returned(Fail(InvalidDateFormat), <<>>)
    ELSE Awaiting(_api_modify_logistics_node(data),
                  <<"_api_modify_logistics_node">>)

\* _execute_insert without the node_location check
_execute_insert_any_location(data) ==
    IF ~Truthy(data.order_id)
    THEN Returned(Fail(ParameterMissing("order_id")), <<>>)
    ELSE IF ~Truthy(data.status_description)
    THEN Returned(Fail(ParameterMissing("status_description")), <<>>)
    ELSE IF ~Truthy(data.occurred_at_str)
    THEN Returned(Fail(ParameterMissing("occurred_at_str")), <<>>)
    ELSE IF ~re_match(date_pattern, data.occurred_at_str[1])
    THEN Returned(Fail(InvalidDateFormat), <<>>)
    ELSE Awaiting(_api_insert_logistics_node(data),
                  <<"_api_insert_logistics_node">>)

_execute_insert(data) ==
    IF ~Truthy(data.order_id)
    THEN Returned(Fail(ParameterMissing("order_id")), <<>>)
    ELSE IF ~Truthy(data.status_description)
    THEN Returned(Fail(ParameterMissing("status_description")), <<>>)
    ELSE IF ~Truthy(data.node_location)
    THEN Returned(Fail(ParameterMissing("node_location")), <<>>)
    ELSE IF ~Truthy(data.occurred_at_str)
    THEN Returned(Fail(ParameterMissing("occurred_at_str")), <<>>)
    ELSE IF ~re_match(date_pattern, data.occurred_at_str[1])
    THEN Returned(Fail(InvalidDateFormat), <<>>)
    ELSE Awaiting(_api_insert_logistics_node(data),
                  <<"_api_insert_logistics_node">>)

----------------------------------------------------------------------------
(* LogisticsActionAgent.reply *)

\* the content of the message handed to the actor: a JSON object (data its
\* keys), a JSON value that is no object, or text that is not JSON
Instruction(data) == [kind |-> "object", data |-> data]
NonObjectInstruction == [kind |-> "array", data |-> EmptyCommand]
MalformedInstruction == [kind |-> "not_json", data |-> EmptyCommand]

\* reply up to the point where it returns or awaits the HTTP response
reply(x) ==
    IF x.kind = "not_json"
    THEN Returned(Fail(InstructionFormatError), <<>>)    \* json.loads raises
    ELSE IF x.kind = "array"
    THEN \* data.get raises AttributeError, caught by `except Exception`
         Returned(Fail(Raised("'list' object has no attribute 'get'")), <<>>)
    ELSE LET data == x.data
             action == data.action
         IN  IF action = Some("query")
             THEN _execute_query(data.order_number, data)
             ELSE IF action = Some("modify")
             THEN _execute_modify(data.order_number, data)
             ELSE IF action = Some("modify_node")
             THEN _execute_modify_node(data)
             ELSE IF action = Some("insert")
             THEN _execute_insert(data)
             ELSE Returned(Fail(UnknownAction(action)), <<>>)

\* the fixed acknowledgement _api_modify_logistics_node returns after its
\* request; the response of the business system is not read
ModifyNodeAck(data) ==
    [kind |-> "modify_node_ack", success |-> "true",
     order_id |-> data.order_id, session_id |-> data.session_id,
     tracking_id |-> data.tracking_id, location |-> data.node_location,
     status_description |-> data.status_description,
     operator |-> data.operator, vehicle_plate |-> data.vehicle_plate,
     occurred_at_str |-> data.occurred_at_str, remark |-> data.remark,
     content |-> data.content]

\* reply from the HTTP response to its return
reply_resume(x, resp) ==
    LET action == x.data.action
    IN  IF action = Some("modify_node")
        THEN [action |-> Some("modify_node"),
              success |-> SuccessOf(ModifyNodeAck(x.data)),
              error |-> NoError, message |-> Some("node updated"),
              data |-> ModifyNodeAck(x.data)]
        ELSE IF resp.kind = "not_json"
        THEN \* response.json() raises json.JSONDecodeError
             Fail(InstructionFormatError)
        ELSE IF action = Some("query")
        THEN [action |-> Some("query"), success |-> TRUE, error |-> NoError,
              message |-> None, data |-> resp]
        ELSE IF resp.kind = "array"
        THEN Fail(Raised("'list' object has no attribute 'get'"))
        ELSE [action |-> Some("insert"), success |-> SuccessOf(resp),
              error |-> NoError, message |-> Some("node inserted"),
              data |-> resp]

\* a handler of exceptions that answers success=false with no error text
reply_raise_without_error(x) == Fail(NoError)

\* the HTTP request fails (httpx raises): `except Exception` of reply
reply_raise(x) == Fail(Raised("ConnectError"))

\* the outcome of the awaited HTTP request: none yet, or the request raised
\* (httpx.HTTPError), or one of Responses
NoResponse == [kind |-> "none", success |-> "absent"]
TransportError == [kind |-> "raised", success |-> "absent"]

IdleActor ==
    [pc |-> "idle", x |-> MalformedInstruction, result |-> Fail(NoError),
     api |-> <<>>, http |-> <<>>, response |-> NoResponse]

\* actor(action_msg): a fresh agent is called with the instruction
CalledActor(x) == [IdleActor EXCEPT !.pc = "called", !.x = x]

ActorReply(r) ==
    /\ actor[r].pc = "called"
    /\ LET o == reply(actor[r].x)
       IN  actor' = [actor EXCEPT ![r] =
                [@ EXCEPT !.pc = IF o.kind = "return" THEN "returned" ELSE "http",
                          !.result = o.result,
                          !.api = o.api,
                          !.http = IF o.kind = "await" THEN <<o.call>> ELSE <<>>]]
    /\ UNCHANGED <<initialized, store, req, started, smvars>>

HttpResponds(r, resp) ==
    /\ actor[r].pc = "http"
    /\ actor' = [actor EXCEPT ![r] =
            [@ EXCEPT !.pc = "returned", !.response = resp,
                      !.result = reply_resume(actor[r].x, resp)]]
    /\ UNCHANGED <<initialized, store, req, started, smvars>>

\* an actor that sends its request a second time when the first one fails
HttpRaisesAndRetries(r) ==
    /\ actor[r].pc = "http"
    /\ actor' = [actor EXCEPT ![r] =
            IF Len(actor[r].http) = 1
            THEN [@ EXCEPT !.http = Append(@, actor[r].http[1])]
            ELSE [@ EXCEPT !.pc = "returned", !.response = TransportError,
                           !.result = reply_raise(actor[r].x)]]
    /\ UNCHANGED <<initialized, store, req, started, smvars>>

HttpRaises(r) ==
    /\ actor[r].pc = "http"
    /\ actor' = [actor EXCEPT ![r] =
            [@ EXCEPT !.pc = "returned", !.response = TransportError,
                      !.result = reply_raise(actor[r].x)]]
    /\ UNCHANGED <<initialized, store, req, started, smvars>>

----------------------------------------------------------------------------
(* LogisticsService: values *)

\* user_id of every memory chat creates
DefaultUser == "default"

Users == {DefaultUser, "u1", "u1:s"}
SessionIds == {"", "s1", "s2", "s:s1"}
MemoryKeys == Users \X SessionIds

\* the ReasoningResult fields the orchestrator reads; a field the model
\* left out holds its default (None, no questions)
NoReasoning ==
    [intent |-> "unknown", modify_type |-> None, order_id |-> None,
     order_number |-> None, transport_status_name |-> None,
     tracking_id |-> None, node_location |-> None,
     status_description |-> None, occurred_at_str |-> None,
     operator |-> None, vehicle_plate |-> None, remark |-> None,
     content |-> None, clarification_questions |-> <<>>, confidence |-> 0]

\* f"抱歉，处理您的请求时遇到了问题: {str(e)}"
Apology(e) == "Sorry, a problem occurred while handling your request: " \o e

\* "\n".join(texts)
RECURSIVE Join(_)
Join(texts) ==
    IF texts = <<>> THEN ""
    ELSE IF Len(texts) = 1 THEN texts[1]
    ELSE texts[1] \o "\n" \o Join(Tail(texts))

\* the text blocks of a content list, in order
RECURSIVE TextsOf(_)
TextsOf(blocks) ==
    IF blocks = <<>> THEN <<>>
    ELSE IF Head(blocks).type = "text"
    THEN <<Head(blocks).text>> \o TextsOf(Tail(blocks))
    ELSE TextsOf(Tail(blocks))

\* Msg.content is a str or a list of content blocks
StrContent(text) == [kind |-> "str", text |-> text, blocks |-> <<>>]
BlockContent(blocks) == [kind |-> "list", text |-> "", blocks |-> blocks]
TextBlock(text) == [type |-> "text", text |-> text]
ToolUseBlock == [type |-> "tool_use", text |-> ""]

_extract_text_from_msg(content) ==
    IF content.kind = "str" THEN content.text
    ELSE Join(TextsOf(content.blocks))

\* Msg(name=..., content=..., role=...)
Msg(name, content, role) == [name |-> name, content |-> content, role |-> role]

\* action_content of chat, Step 3 (keys not set are absent: None)
action_content(reasoning_result, session_id) ==
    LET rr == reasoning_result
    IN  IF rr.modify_type = Some("modify_node")
        THEN [EmptyCommand EXCEPT
                !.action = Some("modify_node"),
                !.session_id = Some(session_id),
                !.order_id = rr.order_id,
                !.tracking_id = rr.tracking_id,
                !.node_location = rr.node_location,
                !.status_description = rr.status_description,
                !.operator = rr.operator,
                !.vehicle_plate = rr.vehicle_plate,
                !.occurred_at_str = rr.occurred_at_str,
                !.remark = rr.remark,
                !.content = rr.content]
        ELSE IF rr.intent = "insert"
        THEN [EmptyCommand EXCEPT
                !.action = Some("insert"),
                !.session_id = Some(session_id),
                !.order_id = rr.order_id,
                !.node_location = rr.node_location,
                !.occurred_at_str = rr.occurred_at_str,
                !.status_description = rr.status_description,
                !.operator = rr.operator,
                !.vehicle_plate = rr.vehicle_plate,
                !.remark = rr.remark,
                !.content = rr.content]
        ELSE [EmptyCommand EXCEPT
                !.action = Some(rr.intent),
                !.session_id = Some(session_id),
                !.order_id = rr.order_id,
                !.order_number = rr.order_number,
                !.transport_status_name = rr.transport_status_name]

\* what is left of reasoning_result once format_response has built its
\* prompt from it: the fields read after that, the others blanked
Handed(rr) ==
    [NoReasoning EXCEPT !.intent = rr.intent, !.confidence = rr.confidence,
                        !.clarification_questions = rr.clarification_questions]

\* a gate that also asks for a confident result
NeedsActionIfConfident(reasoning_result) ==
    /\ InList(reasoning_result.intent,
              <<"query", "modify", "modify_node", "insert">>)
    /\ reasoning_result.confidence >= 50

\* `if intent in ["query", "modify", "modify_node", "insert"]` of chat,
\* Step 3: the intent decides, whatever the confidence
NeedsAction(reasoning_result) ==
    InList(reasoning_result.intent,
           <<"query", "modify", "modify_node", "insert">>)

\* the envelope chat returns after the memory append
SuccessEnvelope(q) ==
    [success |-> TRUE, message |-> q.reply_text,
     data |-> [kind |-> "result", session_id |-> q.session_id,
               intent |-> q.intent, perception |-> q.perception_result,
               execution |-> q.execution_result]]

\* the envelope of `except Exception as e`
FailureEnvelope(e) ==
    [success |-> FALSE, message |-> Apology(e),
     data |-> [kind |-> "error", error |-> e]]

\* the text of the content items of chat call number no
UserText(no) == "message " \o ToString(no)

IdleRequest ==
    [pc |-> "idle", session_id |-> "", no |-> 0, content |-> "",
     perception_result |-> None, reasoning_result |-> None,
     intent |-> "unknown", execution_result |-> None,
     response_content |-> StrContent(""), reply_text |-> "",
     envelope |-> None, raised |-> "", trace |-> <<>>, failed |-> {},
     history |-> <<>>, recent |-> <<>>]

----------------------------------------------------------------------------
(* LogisticsService.chat, one action per stretch between two awaits *)

\* one memory for every session
KeyOfSingleton(q) == <<DefaultUser, "s1">>

\* the memory chat constructs: user_id "default", session_id of the call
Key(q) == <<DefaultUser, q.session_id>>

\* the positions at which a chat task is suspended in an await
Suspended == {"perceive", "reason_memory", "reason", "act", "respond", "persist"}

\* chat that adds the user message to the memory before it perceives
\* (`await memory.add(user_msg)`)
StartAddingUserMsg(r, session_id, max) ==
    /\ req[r].pc = "idle"
    /\ started < max
    /\ started' = started + 1
    /\ initialized' = TRUE
    /\ req' = [req EXCEPT ![r] =
            [IdleRequest EXCEPT !.pc = "perceive", !.session_id = session_id,
                                !.no = started + 1,
                                !.content = UserText(started + 1),
                                !.trace = <<"perceive">>]]
    /\ store' = [store EXCEPT ![<<DefaultUser, session_id>>] =
                    Append(@, Msg("user", UserText(started + 1), "user"))]
    /\ UNCHANGED <<actor, smvars>>

\* chat whose initialize suspends between its test of _initialized and the
\* creation of the resources
StartSuspendingInInitialize(r, session_id, max) ==
    \/ /\ req[r].pc = "idle"
       /\ started < max
       /\ started' = started + 1
       /\ req' = [req EXCEPT ![r] =
               [IdleRequest EXCEPT
                    !.pc = IF initialized THEN "perceive" ELSE "initializing",
                    !.session_id = session_id,
                    !.no = started + 1,
                    !.content = UserText(started + 1),
                    !.trace = IF initialized THEN <<"perceive">> ELSE <<>>]]
       /\ UNCHANGED <<initialized, store, actor, smvars>>
    \/ /\ req[r].pc = "initializing"
       /\ req[r].session_id = session_id
       /\ initialized' = TRUE
       /\ req' = [req EXCEPT ![r] =
               [@ EXCEPT !.pc = "perceive", !.trace = <<"perceive">>]]
       /\ UNCHANGED <<started, store, actor, smvars>>

\* chat is called: shared resources are initialised if they are not yet,
\* the memory and the four agents are created, the user message is built
\* and perceiver.perceive is awaited
Start(r, session_id, max) ==
    /\ req[r].pc = "idle"
    /\ started < max
    /\ started' = started + 1
    /\ initialized' = TRUE
    /\ req' = [req EXCEPT ![r] =
            [IdleRequest EXCEPT !.pc = "perceive", !.session_id = session_id,
                                !.no = started + 1,
                                !.content = UserText(started + 1),
                                !.trace = <<"perceive">>]]
    /\ UNCHANGED <<store, actor, smvars>>

\* a step before `try:` raises (initialize, the memory or an agent
\* constructor): the exception leaves chat
StartRaises(r, session_id, at, max) ==
    /\ req[r].pc = "idle"
    /\ started < max
    /\ at = "initialize" => ~initialized
    /\ started' = started + 1
    /\ initialized' = IF at = "initialize" THEN FALSE ELSE TRUE
    /\ req' = [req EXCEPT ![r] =
            [IdleRequest EXCEPT !.pc = "raised", !.session_id = session_id,
                                !.no = started + 1,
                                !.content = UserText(started + 1),
                                !.raised = at]]
    /\ UNCHANGED <<store, actor, smvars>>

\* a handler that logs the exception and goes on to the Response stage
CaughtAndContinued(q, e) ==
    [q EXCEPT !.pc = "respond", !.raised = e,
              !.trace = Append(q.trace, "respond")]

\* an exception reaches `except Exception as e` of chat
Caught(q, e) ==
    [q EXCEPT !.pc = "done", !.raised = e, !.envelope = Some(FailureEnvelope(e))]

\* perceive without its `except Exception`: a failed model call raises into
\* chat
PerceiveReturnsOrRaises(r, perception_result) ==
    /\ req[r].pc = "perceive"
    /\ req' = [req EXCEPT ![r] =
            IF perception_result = None
            THEN [Caught(req[r], "ModelError") EXCEPT !.failed = {"perceive"}]
            ELSE [@ EXCEPT !.pc = "reason_memory",
                           !.perception_result = perception_result,
                           !.trace = Append(req[r].trace, "reason")]]
    /\ UNCHANGED <<initialized, store, actor, started, smvars>>

\* perceive returns: the structured result, or (the model call failed) a
\* message without metadata; reasoner.reason starts and reads the memory
PerceiveReturns(r, perception_result) ==
    /\ req[r].pc = "perceive"
    /\ req' = [req EXCEPT ![r] =
            [@ EXCEPT !.pc = "reason_memory",
                      !.perception_result = perception_result,
                      !.failed = IF perception_result = None
                                 THEN {"perceive"} ELSE {},
                      !.trace = Append(req[r].trace, "reason")]]
    /\ UNCHANGED <<initialized, store, actor, started, smvars>>

\* the first three messages of the history: conversation_history[:3]
first_three(conversation_history) ==
    SubSeq(conversation_history, 1,
           IF Len(conversation_history) < 3 THEN Len(conversation_history) ELSE 3)

\* recent = conversation_history[-3:]
last_three(conversation_history) ==
    SubSeq(conversation_history,
           IF Len(conversation_history) > 3
           THEN Len(conversation_history) - 2 ELSE 1,
           Len(conversation_history))

\* memory.get_memory() of _build_reasoning_input returns, the prompt is
\* built with the messages of recent and the model is called
ReasonReadsMemory(r) ==
    /\ req[r].pc = "reason_memory"
    /\ req' = [req EXCEPT ![r] =
            [@ EXCEPT !.pc = "reason", !.history = store[Key(req[r])],
                      !.recent = last_three(store[Key(req[r])])]]
    /\ UNCHANGED <<initialized, store, actor, started, smvars>>

\* memory.get_memory() raises: reason has no handler around it
ReasonReadRaises(r) ==
    /\ req[r].pc = "reason_memory"
    /\ req' = [req EXCEPT ![r] = Caught(req[r], "OperationalError")]
    /\ UNCHANGED <<initialized, store, actor, started, smvars>>

\* the reasoning model returns structured output: Step 3 decides on the
\* intent alone whether the actor is called
ReasonReturns(r, reasoning_result) ==
    /\ req[r].pc = "reason"
    /\ LET intent == reasoning_result.intent
           act == NeedsAction(reasoning_result)
       IN  /\ req' = [req EXCEPT ![r] =
                [@ EXCEPT !.pc = IF act THEN "act" ELSE "respond",
                          !.reasoning_result =
                                Some(IF act THEN reasoning_result
                                     ELSE Handed(reasoning_result)),
                          !.intent = intent,
                          !.history = <<>>,
                          !.recent = <<>>,
                          !.trace = Append(req[r].trace,
                                      IF act THEN "act" ELSE "respond")]]
           /\ actor' = IF act
                THEN [actor EXCEPT ![r] = CalledActor(Instruction(
                        action_content(reasoning_result, req[r].session_id)))]
                ELSE actor
    /\ UNCHANGED <<initialized, store, started, smvars>>

\* the reasoning model call fails: reason answers with a message that has
\* no metadata, reasoning_result is None and reasoning_result.get raises
ReasonFails(r) ==
    /\ req[r].pc = "reason"
    /\ req' = [req EXCEPT ![r] =
            [Caught(req[r], "'NoneType' object has no attribute 'get'")
                EXCEPT !.failed = @ \cup {"reason"}, !.history = <<>>,
                       !.recent = <<>>]]
    /\ UNCHANGED <<initialized, store, actor, started, smvars>>

\* a loop that hands the result of the actor back to the Reasoning stage
ActReturnsAndReasonsAgain(r) ==
    /\ req[r].pc = "act"
    /\ actor[r].pc = "returned"
    /\ req' = [req EXCEPT ![r] =
            [@ EXCEPT !.pc = "reason_memory",
                      !.execution_result = Some(actor[r].result),
                      !.trace = Append(req[r].trace, "reason")]]
    /\ actor' = [actor EXCEPT ![r] = IdleActor]
    /\ UNCHANGED <<initialized, store, started, smvars>>

\* the actor has returned: execution_result is read back from its message,
\* the instruction message is dropped and dialog.format_response is awaited
ActReturns(r) ==
    /\ req[r].pc = "act"
    /\ actor[r].pc = "returned"
    /\ req' = [req EXCEPT ![r] =
            [@ EXCEPT !.pc = "respond",
                      !.reasoning_result = Some(Handed(req[r].reasoning_result[1])),
                      !.execution_result = Some(actor[r].result),
                      !.trace = Append(req[r].trace, "respond")]]
    /\ actor' = [actor EXCEPT ![r] = [@ EXCEPT !.x = MalformedInstruction,
                                               !.response = NoResponse]]
    /\ UNCHANGED <<initialized, store, started, smvars>>

\* the reply is extracted and memory.add(assistant_msg) is awaited
Responded(q, content) ==
    [q EXCEPT !.pc = "persist", !.response_content = content,
              !.reply_text = _extract_text_from_msg(content),
              !.trace = Append(q.trace, "persist")]

\* the dialog model returns the reply
RespondReturns(r, content) ==
    /\ req[r].pc = "respond"
    /\ req' = [req EXCEPT ![r] = Responded(req[r], content)]
    /\ UNCHANGED <<initialized, store, actor, started, smvars>>

\* format_response answering a failed model call with an empty message
RespondFailsSilently(r) ==
    /\ req[r].pc = "respond"
    /\ req' = [req EXCEPT ![r] =
            [Responded(req[r], StrContent(""))
                EXCEPT !.failed = @ \cup {"respond"}]]
    /\ UNCHANGED <<initialized, store, actor, started, smvars>>

\* the dialog model call fails: format_response answers with the apology
RespondFails(r) ==
    /\ req[r].pc = "respond"
    /\ req' = [req EXCEPT ![r] =
            [Responded(req[r], StrContent(Apology("ModelError")))
                EXCEPT !.failed = @ \cup {"respond"}]]
    /\ UNCHANGED <<initialized, store, actor, started, smvars>>

\* what chat appends to the memory of its session
PersistedMessages(q) == <<Msg("assistant", q.reply_text, "assistant")>>

\* memory.add that replaces the stored messages by the one added
PersistCommitsOverwriting(r) ==
    /\ req[r].pc = "persist"
    /\ store' = [store EXCEPT ![Key(req[r])] =
                    <<Msg("assistant", req[r].reply_text, "assistant")>>]
    /\ req' = [req EXCEPT ![r] =
            [@ EXCEPT !.pc = "done",
                      !.envelope = Some(SuccessEnvelope(req[r]))]]
    /\ UNCHANGED <<initialized, actor, started, smvars>>

\* memory.add returns and chat returns its envelope
PersistCommits(r) ==
    /\ req[r].pc = "persist"
    /\ store' = [store EXCEPT ![Key(req[r])] = @ \o PersistedMessages(req[r])]
    /\ appended' = [appended EXCEPT ![Key(req[r])] =
                    @ \o PersistedMessages(req[r])]
    /\ req' = [req EXCEPT ![r] =
            [@ EXCEPT !.pc = "done",
                      !.envelope = Some(SuccessEnvelope(req[r]))]]
    /\ UNCHANGED <<initialized, actor, started,
                   _engine, _sessions, memories, task, calls>>

\* memory.add raises
PersistRaises(r) ==
    /\ req[r].pc = "persist"
    /\ req' = [req EXCEPT ![r] = Caught(req[r], "OperationalError")]
    /\ UNCHANGED <<initialized, store, actor, started, smvars>>

\* the caller cancels the task while it is suspended: CancelledError is no
\* Exception, no handler of chat or of the agents catches it
Cancel(r) ==
    /\ req[r].pc \in Suspended
    /\ req' = [req EXCEPT ![r] = [@ EXCEPT !.pc = "cancelled", !.history = <<>>,
                                           !.recent = <<>>]]
    /\ actor' = [actor EXCEPT ![r] = [@ EXCEPT !.pc = "idle"]]
    /\ UNCHANGED <<initialized, store, started, smvars>>

\* the caller has the outcome; the task is gone
Collect(r, max) ==
    /\ req[r].pc \in {"done", "raised", "cancelled"}
    /\ started < max
    /\ req' = [req EXCEPT ![r] = IdleRequest]
    /\ actor' = [actor EXCEPT ![r] = IdleActor]
    /\ UNCHANGED <<initialized, store, started, smvars>>

\* clear_session that drops the rows of the session_id of every user
clear_session_of_every_user(session_id, user_id) ==
    /\ store' = [k \in MemoryKeys |->
                    IF k[2] = session_id THEN <<>> ELSE store[k]]
    /\ appended' = [appended EXCEPT ![<<user_id, session_id>>] = <<>>]
    /\ UNCHANGED <<initialized, req, actor, started,
                   _engine, _sessions, memories, task, calls>>

\* LogisticsService.clear_session: memory.drop() on a memory of its own for
\* the pair, on the engine that initialize made
clear_session(session_id, user_id) ==
    /\ initialized
    /\ store' = [store EXCEPT ![<<user_id, session_id>>] = <<>>]
    /\ appended' = [appended EXCEPT ![<<user_id, session_id>>] = <<>>]
    /\ UNCHANGED <<initialized, req, actor, started,
                   _engine, _sessions, memories, task, calls>>

----------------------------------------------------------------------------
(* SessionManager (app/services/session_manager.py) and the readers of      *)
(* LogisticsService; both open the database supply_chain_memory.db, so the  *)
(* memories of both are views of store                                      *)

\* cache_key = f"{user_id}:{session_id}"
cache_key(user_id, session_id) == user_id \o ":" \o session_id

CacheKeys == {cache_key(k[1], k[2]) : k \in MemoryKeys}

\* no object: the key is not in _sessions, the call holds no memory
NoMemory == 0

\* AsyncSQLAlchemyMemory(engine_or_session, user_id, session_id); closed
\* records that close() of the object has completed
Memory(user_id, session_id) ==
    [user_id |-> user_id, session_id |-> session_id, closed |-> FALSE]

\* the rows a memory object reads and writes
Bound(m) == <<m.user_id, m.session_id>>

NoMsg == Msg("", "", "")

IdleCall ==
    [pc |-> "idle", user_id |-> "", session_id |-> "", msg |-> NoMsg,
     memory |-> NoMemory, history |-> <<>>,
     \* the iterator of close_all: the last object it gave, the size of
     \* the dict and the number of objects when it was made
     last |-> 0, size |-> 0, high |-> 0]

\* SessionManager.get_session_memory: the object it returns, and the cache
\* and the objects after it (it never suspends: initialize awaits nothing)
get_session_memory(session_id, user_id) ==
    LET k == cache_key(user_id, session_id)
    IN  IF _sessions[k] # NoMemory
        THEN [memory |-> _sessions[k],
              sessions |-> _sessions, memories |-> memories]
        ELSE [memory |-> Len(memories) + 1,
              sessions |-> [_sessions EXCEPT ![k] = Len(memories) + 1],
              memories |-> Append(memories, Memory(user_id, session_id))]

\* a SessionManager method is called: it takes the memory from
\* get_session_memory and awaits a method of it
Called(t, pc, session_id, msg, user_id) ==
    /\ task[t].pc = "idle"
    /\ calls < MaxCalls
    /\ calls' = calls + 1
    /\ LET g == get_session_memory(session_id, user_id)
       IN  /\ _engine' = TRUE
           /\ _sessions' = g.sessions
           /\ memories' = g.memories
           /\ task' = [task EXCEPT ![t] =
                    [IdleCall EXCEPT !.pc = pc, !.user_id = user_id,
                                     !.session_id = session_id, !.msg = msg,
                                     !.memory = g.memory]]
    /\ UNCHANGED <<initialized, store, req, actor, started, appended>>

\* SessionManager.add_message up to `await memory.add(msg)`
add_message(t, session_id, msg, user_id) ==
    Called(t, "add", session_id, msg, user_id)

\* memory.add(msg) completes and add_message returns
MemoryAdds(t) ==
    /\ task[t].pc = "add"
    /\ store' = [store EXCEPT ![Bound(memories[task[t].memory])] =
                    Append(@, task[t].msg)]
    /\ appended' = [appended EXCEPT ![<<task[t].user_id, task[t].session_id>>] =
                    Append(@, task[t].msg)]
    /\ task' = [task EXCEPT ![t] = [@ EXCEPT !.pc = "returned"]]
    /\ UNCHANGED <<initialized, req, actor, started,
                   _engine, _sessions, memories, calls>>

\* SessionManager.get_session_history up to `await memory.get_memory()`
manager_get_session_history(t, session_id, user_id) ==
    Called(t, "get", session_id, NoMsg, user_id)

\* memory.get_memory() completes and get_session_history returns the list
MemoryGets(t) ==
    /\ task[t].pc = "get"
    /\ task' = [task EXCEPT ![t] =
            [@ EXCEPT !.pc = "returned",
                      !.history = store[Bound(memories[task[t].memory])]]]
    /\ UNCHANGED <<initialized, store, req, actor, started,
                   _engine, _sessions, memories, appended, calls>>

\* SessionManager.clear_session up to `await memory.drop()`
manager_clear_session(t, session_id, user_id) ==
    Called(t, "drop", session_id, NoMsg, user_id)

\* memory.drop() completes
MemoryDrops(t) ==
    /\ task[t].pc = "drop"
    /\ store' = [store EXCEPT ![Bound(memories[task[t].memory])] = <<>>]
    /\ appended' = [appended EXCEPT ![<<task[t].user_id, task[t].session_id>>] = <<>>]
    /\ task' = [task EXCEPT ![t] = [@ EXCEPT !.pc = "dropped"]]
    /\ UNCHANGED <<initialized, req, actor, started,
                   _engine, _sessions, memories, calls>>

\* clear_session resumes: `if cache_key in self._sessions: del ...`
ClearReturns(t) ==
    /\ task[t].pc = "dropped"
    /\ _sessions' = [_sessions EXCEPT
                        ![cache_key(task[t].user_id, task[t].session_id)] = NoMemory]
    /\ task' = [task EXCEPT ![t] = [@ EXCEPT !.pc = "returned"]]
    /\ UNCHANGED <<initialized, store, req, actor, started,
                   _engine, memories, appended, calls>>

\* self._sessions.values(): the objects in the cache.  A dict keeps its keys
\* in the order they were inserted and every object is inserted when it is
\* constructed, so the values come in the order of their numbers
Held == {_sessions[k] : k \in CacheKeys} \ {NoMemory}

Min(S) == CHOOSE m \in S : \A n \in S : m <= n

\* close_all at the head of `for memory in self._sessions.values()`, c being
\* the record of the call: the iterator raises RuntimeError when the size of
\* the dict is not the one it started with; when a key was deleted and
\* another inserted meanwhile it goes on by position and may pass over
\* entries; otherwise it gives the next object, and after the last one
\* close_all goes on to `self._sessions.clear()` and, with an engine,
\* `await self._engine.dispose()`
Advance(t, c) ==
    LET rest == {m \in Held : m > c.last}
        Visit(m) ==
            /\ task' = [task EXCEPT ![t] =
                    [c EXCEPT !.pc = "closing", !.memory = m, !.last = m]]
            /\ _sessions' = _sessions
        End ==
            /\ _sessions' = [k \in CacheKeys |-> NoMemory]
            /\ task' = [task EXCEPT ![t] =
                    [c EXCEPT !.pc = IF _engine THEN "dispose" ELSE "returned",
                              !.memory = NoMemory]]
    IN  IF Cardinality(Held) # c.size
        THEN /\ task' = [task EXCEPT ![t] =
                    [c EXCEPT !.pc = "raised", !.memory = NoMemory]]
             /\ _sessions' = _sessions
        ELSE IF \E m \in Held : m > c.high
             THEN (\E m \in rest : Visit(m)) \/ End
             ELSE IF rest = {} THEN End ELSE Visit(Min(rest))

\* SessionManager.close_all up to its first await
close_all(t) ==
    /\ task[t].pc = "idle"
    /\ calls < MaxCalls
    /\ calls' = calls + 1
    /\ Advance(t, [IdleCall EXCEPT !.size = Cardinality(Held),
                                   !.high = Len(memories)])
    /\ UNCHANGED <<initialized, store, req, actor, started,
                   _engine, memories, appended>>

\* memory.close() completes and close_all resumes at the head of the loop
MemoryCloses(t) ==
    /\ task[t].pc = "closing"
    /\ memories' = [memories EXCEPT ![task[t].memory].closed = TRUE]
    /\ Advance(t, task[t])
    /\ UNCHANGED <<initialized, store, req, actor, started,
                   _engine, appended, calls>>

\* self._engine.dispose() completes and close_all returns
EngineDisposes(t) ==
    /\ task[t].pc = "dispose"
    /\ task' = [task EXCEPT ![t] = [@ EXCEPT !.pc = "returned"]]
    /\ UNCHANGED <<initialized, store, req, actor, started,
                   _engine, _sessions, memories, appended, calls>>

\* LogisticsService.get_session_history up to `await memory.get_memory()`:
\* a memory of its own for the pair, on the engine that initialize made
get_session_history(t, session_id, user_id) ==
    /\ initialized
    /\ task[t].pc = "idle"
    /\ calls < MaxCalls
    /\ calls' = calls + 1
    /\ task' = [task EXCEPT ![t] =
            [IdleCall EXCEPT !.pc = "service_get", !.user_id = user_id,
                             !.session_id = session_id]]
    /\ UNCHANGED <<initialized, store, req, actor, started,
                   _engine, _sessions, memories, appended>>

\* clear_session or get_session_history of LogisticsService is called while
\* _memory_engine is still None (neither method calls initialize): the
\* memory is handed no engine, there is no database to reach and the call
\* ends with the exception of the library
CalledUninitialized(t, session_id, user_id) ==
    /\ ~initialized
    /\ task[t].pc = "idle"
    /\ calls < MaxCalls
    /\ calls' = calls + 1
    /\ task' = [task EXCEPT ![t] =
            [IdleCall EXCEPT !.pc = "raised", !.user_id = user_id,
                             !.session_id = session_id]]
    /\ UNCHANGED <<initialized, store, req, actor, started,
                   _engine, _sessions, memories, appended>>

\* get_session_history that reads the rows of user "default" whatever the
\* user_id of the call
ServiceMemoryGetsOfDefault(t) ==
    /\ task[t].pc = "service_get"
    /\ task' = [task EXCEPT ![t] =
            [@ EXCEPT !.pc = "returned",
                      !.history = store[<<DefaultUser, task[t].session_id>>]]]
    /\ UNCHANGED <<initialized, store, req, actor, started,
                   _engine, _sessions, memories, appended, calls>>

\* memory.get_memory() completes and get_session_history returns the list
ServiceMemoryGets(t) ==
    /\ task[t].pc = "service_get"
    /\ task' = [task EXCEPT ![t] =
            [@ EXCEPT !.pc = "returned",
                      !.history = store[<<task[t].user_id, task[t].session_id>>]]]
    /\ UNCHANGED <<initialized, store, req, actor, started,
                   _engine, _sessions, memories, appended, calls>>

\* the caller has the outcome of the call
Finished(t) ==
    /\ task[t].pc \in {"returned", "raised"}
    /\ calls < MaxCalls
    /\ task' = [task EXCEPT ![t] = IdleCall]
    /\ UNCHANGED <<initialized, store, req, actor, started,
                   _engine, _sessions, memories, appended, calls>>

----------------------------------------------------------------------------
(* Inputs *)

\* texts of occurred_at_str, as tuples of characters
\* well formed
Date_2024_01_15 == <<"2", "0", "2", "4", "-", "0", "1", "-", "1", "5">>

\* a newline ends the text
Date_newline == <<"2", "0", "2", "4", "-", "0", "1", "-", "1", "5", "\n">>

\* the first digit is ARABIC-INDIC DIGIT THREE
Date_unicode_digit == <<"U+0663", "0", "2", "4", "-", "0", "1", "-", "1", "5">>

\* one digit for the month
Date_short_month == <<"2", "0", "2", "4", "-", "1", "-", "1", "5">>

\* slashes
Date_slashes == <<"2", "0", "2", "4", "/", "0", "1", "/", "1", "5">>

\* no separators
Date_compact == <<"2", "0", "2", "4", "0", "1", "1", "5">>

\* a time follows
Date_with_time == <<"2", "0", "2", "4", "-", "0", "1", "-", "1", "5", " ", "1", "0", ":", "0", "0">>

\* a space first
Date_leading_space == <<" ", "2", "0", "2", "4", "-", "0", "1", "-", "1", "5">>

\* no date at all
Date_words == <<"t", "o", "m", "o", "r", "r", "o", "w">>

\* the texts re.match accepts
AcceptedDates == {Date_2024_01_15, Date_newline, Date_unicode_digit}

\* texts that are not of the form yyyy-MM-dd
MalformedDates ==
    {Date_short_month, Date_slashes, Date_compact, Date_with_time,
     Date_leading_space, Date_words}

\* values of occurred_at_str: absent, empty, or one of the texts
OccurredAtStrs ==
    {None, Some(<<>>)} \cup {Some(t) : t \in AcceptedDates \cup MalformedDates}

\* values of the other string fields: absent, empty, set
Strs(v) == {None, Some(""), Some(v)}

\* values of an optional field: absent or set
Opts(v) == {None, Some(v)}

\* transport_status_name as the schema of ReasoningResult admits it
SchemaStatuses == {None} \cup {Some(valid_statuses[i]) : i \in 1..Len(valid_statuses)}

\* ... and as an instruction may carry it: 已签收 and "delivered" are no
\* member of valid_statuses
AnyStatuses == SchemaStatuses \cup {Some(""), Some("YiQianShou"), Some("delivered")}

\* instructions by the handler they reach; a key the handler does not read
\* is left absent
QueryInstructions ==
    {[EmptyCommand EXCEPT !.action = Some("query"), !.session_id = s,
                          !.order_id = oid, !.order_number = ono] :
        s \in Opts("s1"), oid \in Strs("1001"), ono \in Strs("order1234567890")}

ModifyInstructions ==
    {[EmptyCommand EXCEPT !.action = Some("modify"), !.session_id = s,
                          !.order_id = oid, !.order_number = ono,
                          !.transport_status_name = t] :
        s \in Opts("s1"), oid \in Strs("1001"),
        ono \in Strs("order1234567890"), t \in AnyStatuses}

NodeInstructions(action, sessions, tracking_ids, optional) ==
    {[EmptyCommand EXCEPT !.action = Some(action), !.session_id = s,
                          !.order_id = oid, !.tracking_id = tid,
                          !.node_location = loc, !.status_description = sd,
                          !.occurred_at_str = at, !.operator = op,
                          !.vehicle_plate = vp, !.remark = rm,
                          !.content = ct] :
        s \in sessions, oid \in Strs("1001"), tid \in tracking_ids,
        loc \in Strs("Shenzhen"), sd \in Strs("arrived"),
        at \in OccurredAtStrs, op \in Opts("Li"), vp \in optional,
        rm \in optional, ct \in optional}

ModifyNodeInstructions ==
    NodeInstructions("modify_node", Strs("s1"), Strs("77"), {None})
    \cup NodeInstructions("modify_node", {Some("s1")}, {Some("77")}, Opts("x"))

InsertInstructions ==
    NodeInstructions("insert", Strs("s1"), {None}, {None})
    \cup NodeInstructions("insert", {Some("s1")}, {None}, Opts("x"))

UnknownInstructions ==
    {[EmptyCommand EXCEPT !.action = a, !.order_number = Some("order1234567890")] :
        a \in {None, Some(""), Some("delete")}}

\* every message content the actor is called with
Instructions ==
    {Instruction(d) : d \in QueryInstructions \cup ModifyInstructions
                            \cup ModifyNodeInstructions \cup InsertInstructions
                            \cup UnknownInstructions}
    \cup {NonObjectInstruction, MalformedInstruction}

\* perception_msg.metadata: None when the perception model call failed
Perceptions ==
    {None, Some([order_number |-> Some("order1234567890"), confidence |-> 90])}

ModifyTypes == {None, Some("modify_status"), Some("modify_node")}

Confidences == {0, 90}

\* outputs of the reasoning model, by the branch of Step 3 they take; a
\* field the branch does not read is left at its default
NoActionResults ==
    {[NoReasoning EXCEPT !.intent = i, !.modify_type = mt,
                         !.clarification_questions = qs, !.confidence = c] :
        i \in {"clarify", "unknown"}, mt \in ModifyTypes,
        qs \in {<<>>, <<"which order?", "which status?">>}, c \in Confidences}

QueryModifyResults ==
    {[NoReasoning EXCEPT !.intent = i, !.modify_type = mt, !.order_id = oid,
                         !.order_number = ono, !.transport_status_name = t,
                         !.confidence = c] :
        i \in {"query", "modify"}, mt \in {None, Some("modify_status")},
        oid \in Opts("1001"), ono \in Strs("order1234567890"),
        t \in {None, Some("YunShuZhong"), Some("YiSongDa")},
        c \in Confidences}

NodeResults(intents, modify_types, tracking_ids, descriptions, operators) ==
    {[NoReasoning EXCEPT !.intent = i, !.modify_type = mt, !.order_id = oid,
                         !.tracking_id = tid, !.node_location = loc,
                         !.status_description = sd, !.occurred_at_str = at,
                         !.operator = op, !.confidence = c] :
        i \in intents, mt \in modify_types, oid \in Strs("1001"),
        tid \in tracking_ids, loc \in Strs("Shenzhen"), sd \in descriptions,
        at \in {None, Some(<<>>), Some(Date_2024_01_15), Some(Date_slashes)},
        op \in operators, c \in Confidences}

\* the schema lets modify_type be set whatever the intent is: a query and
\* an insert that carry modify_type "modify_node"
MistypedResults ==
    {[NoReasoning EXCEPT !.intent = "query", !.confidence = 90,
                         !.modify_type = Some("modify_node"),
                         !.order_number = Some("order1234567890")],
     [NoReasoning EXCEPT !.intent = "insert", !.confidence = 90,
                         !.modify_type = Some("modify_node"),
                         !.order_id = Some("1001"),
                         !.status_description = Some("arrived"),
                         !.node_location = Some("Shenzhen"),
                         !.occurred_at_str = Some(Date_2024_01_15)]}

ReasoningResults ==
    NoActionResults \cup QueryModifyResults \cup MistypedResults
    \cup NodeResults({"insert"}, {None}, {None}, Strs("arrived"), {None})
    \cup NodeResults({"modify"}, {Some("modify_node")}, Opts("77"),
                     Opts("arrived"), Opts("Li"))

\* a few outputs, one or two per branch
CoreReasoningResults ==
    {[NoReasoning EXCEPT !.intent = "clarify",
                         !.clarification_questions = <<"which order?">>],
     [NoReasoning EXCEPT !.intent = "query", !.confidence = 90,
                         !.order_number = Some("order1234567890")],
     [NoReasoning EXCEPT !.intent = "modify", !.confidence = 90,
                         !.modify_type = Some("modify_status"),
                         !.order_number = Some("order1234567890"),
                         !.transport_status_name = Some("YiSongDa")],
     [NoReasoning EXCEPT !.intent = "insert", !.confidence = 90,
                         !.order_id = Some("1001"),
                         !.status_description = Some("arrived"),
                         !.node_location = Some("Shenzhen"),
                         !.occurred_at_str = Some(Date_2024_01_15)]}

\* what the dialog model may answer to request number no
ReplyText(no) == "reply " \o ToString(no)

DialogContents(no) ==
    {StrContent(ReplyText(no)), StrContent(""),
     BlockContent(<<TextBlock("Done."), ToolUseBlock, TextBlock(ReplyText(no))>>)}

CoreDialogContents(no) == {StrContent(ReplyText(no))}

----------------------------------------------------------------------------
(* Specifications *)

\* the SessionManager singleton after SessionManager()
InitManager ==
    /\ _engine = FALSE
    /\ _sessions = [k \in CacheKeys |-> NoMemory]
    /\ memories = <<>>
    /\ task = [t \in Callers |-> IdleCall]
    /\ appended = [k \in MemoryKeys |-> <<>>]
    /\ calls = 0

Init ==
    /\ initialized = FALSE
    /\ store = [k \in MemoryKeys |-> <<>>]
    /\ req = [r \in Slots |-> IdleRequest]
    /\ actor = [r \in Slots |-> IdleActor]
    /\ started = 0
    /\ InitManager

\* the steps of chat task r, its actor, its caller and its environment;
\* env bounds what the callers ask and what the environment answers
Task(r, env) ==
    \/ \E s \in env.sessions : Start(r, s, env.max)
    \/ \E s \in env.sessions, at \in {"initialize", "memory"} :
          StartRaises(r, s, at, env.max)
    \/ \E p \in env.perceptions : PerceiveReturns(r, p)
    \/ ReasonReadsMemory(r)
    \/ ReasonReadRaises(r)
    \/ \E rr \in env.results : ReasonReturns(r, rr)
    \/ ReasonFails(r)
    \/ ActorReply(r)
    \/ \E resp \in env.responses : HttpResponds(r, resp)
    \/ HttpRaises(r)
    \/ ActReturns(r)
    \/ \E c \in env.contents[req[r].no] : RespondReturns(r, c)
    \/ RespondFails(r)
    \/ PersistCommits(r)
    \/ PersistRaises(r)
    \/ Cancel(r)
    \/ Collect(r, env.max)

\* one chat task at a time, every reasoning output
Next ==
    \/ Task(1, [sessions |-> {"s1"}, max |-> MaxRequests,
                perceptions |-> Perceptions, results |-> ReasoningResults,
                responses |-> Responses,
                contents |-> [no \in 0..MaxRequests |-> DialogContents(no)]])
    \/ \E u \in Users : clear_session("s1", u)

Spec == Init /\ [][Next]_vars

\* chat tasks running together
NextConc ==
    \/ \E r \in Slots :
          Task(r, [sessions |-> {"s1", "s2"}, max |-> MaxTasks,
                   perceptions |-> {None}, results |-> CoreReasoningResults,
                   responses |-> {[kind |-> "object", success |-> "true"]},
                   contents |-> [no \in 0..MaxTasks |-> CoreDialogContents(no)]])
    \/ \E u \in Users : clear_session("s1", u)

SpecConc == Init /\ [][NextConc]_vars

\* the actor alone, called with any instruction
InitAct ==
    /\ initialized = FALSE
    /\ store = [k \in MemoryKeys |-> <<>>]
    /\ req = [r \in Slots |-> IdleRequest]
    /\ \E x \in Instructions :
          actor = [r \in Slots |-> IF r = 1 THEN CalledActor(x) ELSE IdleActor]
    /\ started = 0
    /\ InitManager

NextAct ==
    \/ ActorReply(1)
    \/ \E resp \in Responses : HttpResponds(1, resp)
    \/ HttpRaises(1)

SpecAct == InitAct /\ [][NextAct]_vars

\* the pairs the callers of SessionManager name; the keys of the last two
\* are the same string
ManagerPairs == {<<"u1", "s1">>, <<"u1:s", "s1">>, <<"u1", "s:s1">>}

ManagerMsgs == {Msg("user", "m1", "user"), Msg("assistant", "m2", "assistant")}

\* the shared resources are initialized; SessionManager is called
InitManaged ==
    /\ initialized = TRUE
    /\ store = [k \in MemoryKeys |-> <<>>]
    /\ req = [r \in Slots |-> IdleRequest]
    /\ actor = [r \in Slots |-> IdleActor]
    /\ started = 0
    /\ InitManager

NextManaged ==
    \E t \in Callers :
        \/ \E k \in ManagerPairs, m \in ManagerMsgs :
                add_message(t, k[2], m, k[1])
        \/ MemoryAdds(t)
        \/ \E k \in ManagerPairs : manager_get_session_history(t, k[2], k[1])
        \/ MemoryGets(t)
        \/ \E k \in ManagerPairs : manager_clear_session(t, k[2], k[1])
        \/ MemoryDrops(t)
        \/ ClearReturns(t)
        \/ \E k \in ManagerPairs : get_session_history(t, k[2], k[1])
        \/ ServiceMemoryGets(t)
        \/ Finished(t)

SpecManaged == InitManaged /\ [][NextManaged]_vars

\* SessionManager is called and closed
NextClosing ==
    \E t \in Callers :
        \/ \E k \in ManagerPairs, m \in ManagerMsgs :
                add_message(t, k[2], m, k[1])
        \/ MemoryAdds(t)
        \/ \E k \in ManagerPairs : manager_get_session_history(t, k[2], k[1])
        \/ MemoryGets(t)
        \/ \E k \in ManagerPairs : manager_clear_session(t, k[2], k[1])
        \/ MemoryDrops(t)
        \/ ClearReturns(t)
        \/ close_all(t)
        \/ MemoryCloses(t)
        \/ EngineDisposes(t)
        \/ Finished(t)

SpecClosing == InitManaged /\ [][NextClosing]_vars

\* chat requests one after the other on session "s1", while a caller reads
\* the history of the session through LogisticsService.get_session_history
\* and callers clear it through LogisticsService.clear_session
NextHistory ==
    \/ Task(1, [sessions |-> {"s1"}, max |-> MaxRequests,
                perceptions |-> {None}, results |-> CoreReasoningResults,
                responses |-> {[kind |-> "object", success |-> "true"]},
                contents |-> [no \in 0..MaxRequests |-> CoreDialogContents(no)]])
    \/ \E u \in Users : clear_session("s1", u)
    \/ \E u \in Users : get_session_history(1, "s1", u)
    \/ \E u \in Users : CalledUninitialized(1, "s1", u)
    \/ ServiceMemoryGets(1)
    \/ Finished(1)

SpecHistory == Init /\ [][NextHistory]_vars

\* the most messages of a session that the database holds from earlier runs
MaxStored == 5

\* the k-th message an earlier run has stored
StoredMsg(k) == Msg("assistant", "earlier reply " \o ToString(k), "assistant")

\* the service starts on the database file ./supply_chain_memory.db, which
\* outlives the process: session "s1" holds what earlier runs have stored
InitStored ==
    /\ initialized = FALSE
    /\ \E n \in 0..MaxStored :
          store = [k \in MemoryKeys |->
                      IF k = <<DefaultUser, "s1">>
                      THEN [i \in 1..n |-> StoredMsg(i)] ELSE <<>>]
    /\ req = [r \in Slots |-> IdleRequest]
    /\ actor = [r \in Slots |-> IdleActor]
    /\ started = 0
    /\ InitManager

\* chat requests one after the other on session "s1"
NextStored ==
    Task(1, [sessions |-> {"s1"}, max |-> MaxRequests,
             perceptions |-> {None}, results |-> CoreReasoningResults,
             responses |-> {[kind |-> "object", success |-> "true"]},
             contents |-> [no \in 0..MaxRequests |-> CoreDialogContents(no)]])

SpecStored == InitStored /\ [][NextStored]_vars

----------------------------------------------------------------------------
(* Properties of the Action stage *)

\* the actor of task r was called with a JSON object whose "action" is action
Commanded(r, action) ==
    /\ actor[r].pc \in {"http", "returned"}
    /\ actor[r].x.kind = "object"
    /\ actor[r].x.data.action = Some(action)

\* the actor of task r returned the failure err and has neither entered an
\* _api_* method nor sent an HTTP request
RejectedWith(r, errs) ==
    /\ actor[r].pc = "returned"
    /\ actor[r].result.success = FALSE
    /\ actor[r].result.error \in errs
    /\ actor[r].api = <<>>
    /\ actor[r].http = <<>>

\* the keys among fields that the instruction of task r lacks (absent, null
\* or empty)
MissingFields(r, fields) ==
    {f \in fields : ~Truthy(actor[r].x.data[f])}

InsertRequired == {"order_id", "status_description", "node_location"}
ModifyNodeRequired == {"order_id", "session_id", "tracking_id", "node_location"}

\* an insert, or a modify_node, whose required fields other than
\* occurred_at_str are all present
DatedCommand(r) ==
    \/ Commanded(r, "insert") /\ MissingFields(r, InsertRequired) = {}
    \/ Commanded(r, "modify_node") /\ MissingFields(r, ModifyNodeRequired) = {}

\* C1 as stated: every insert or modify_node command with its other required
\* fields present that carries an occurred_at_str (any string, the empty one
\* included) not matching ^\d{4}-\d{2}-\d{2}$ is answered with success=false
\* and the date-format error, and no outbound call is made.
C1_AnyUnmatchedDateRejected ==
    \A r \in Slots :
        (/\ DatedCommand(r)
         /\ actor[r].x.data.occurred_at_str # None
         /\ ~re_match(date_pattern, actor[r].x.data.occurred_at_str[1]))
        => RejectedWith(r, {InvalidDateFormat})

\* C1 amended: every insert or modify_node command with its other required
\* fields present that carries a non-empty occurred_at_str not matching
\* ^\d{4}-\d{2}-\d{2}$ is answered with success=false and the date-format
\* error, and no _api_* method is entered and no HTTP request sent.
C1_UnmatchedDateRejected ==
    \A r \in Slots :
        (/\ DatedCommand(r)
         /\ Truthy(actor[r].x.data.occurred_at_str)
         /\ actor[r].x.data.occurred_at_str[1] \notin AcceptedDates)
        => RejectedWith(r, {InvalidDateFormat})

\* a modify_node with a date followed by a time has been answered
C1_DateWithTimeAnswered ==
    \E r \in Slots :
        /\ DatedCommand(r)
        /\ Commanded(r, "modify_node")
        /\ actor[r].x.data.occurred_at_str = Some(Date_with_time)
        /\ actor[r].pc = "returned"
        /\ actor[r].result.error = InvalidDateFormat

\* the five names of C2, as the schema of the reasoning output lists them
FiveStatuses ==
    {"DaiTiHuo", "YunShuZhong", "YiSongDa", "YiHuiDan", "YiChangZhiLiu"}

\* C2: a modify command whose transport_status_name is not one of the five
\* names is answered with success=false, and neither _api_modify_logistics
\* has been entered nor an HTTP request sent.
C2_UnknownStatusRejected ==
    \A r \in Slots :
        (/\ Commanded(r, "modify")
         /\ \/ actor[r].x.data.transport_status_name = None
            \/ actor[r].x.data.transport_status_name[1] \notin FiveStatuses)
        => RejectedWith(r, {ParameterMissing("order_id or order_number"),
                            ParameterMissing("transport_status_name"),
                            InvalidEnumValue})

\* a modify that names its order and a status outside the list was refused
\* for the status
C2_UnknownStatusRefused ==
    \E r \in Slots :
        /\ Commanded(r, "modify")
        /\ Truthy(actor[r].x.data.order_id)
        /\ Truthy(actor[r].x.data.transport_status_name)
        /\ actor[r].x.data.transport_status_name[1] \notin FiveStatuses
        /\ actor[r].result.error = InvalidEnumValue

\* C5: a modify_node command lacking any of order_id, session_id,
\* tracking_id, node_location is answered with success=false and an error
\* naming one of the fields it lacks, and no updateLogisticsTrackInfo request
\* is sent.
C5_ModifyNodeMissingFieldRejected ==
    \A r \in Slots :
        (Commanded(r, "modify_node") /\ MissingFields(r, ModifyNodeRequired) # {})
        => RejectedWith(r, {ParameterMissing(f) :
                                f \in MissingFields(r, ModifyNodeRequired)})

\* a modify_node lacking only its session_id was refused for it
C5_SessionIdMissing ==
    \E r \in Slots :
        /\ Commanded(r, "modify_node")
        /\ MissingFields(r, ModifyNodeRequired) = {"session_id"}
        /\ actor[r].result.error = ParameterMissing("session_id")

\* C6: a modify command with neither order_id nor order_number, or with no
\* transport_status_name, is answered with success=false and
\* _api_modify_logistics is not entered; a modify command with at least one
\* of the identifiers and one of the five status names is answered with
\* success=true by _api_modify_logistics.
C6_ModifyGate ==
    \A r \in Slots :
        Commanded(r, "modify") =>
            LET d == actor[r].x.data
                identified == Truthy(d.order_id) \/ Truthy(d.order_number)
            IN  /\ (~identified \/ ~Truthy(d.transport_status_name))
                   => RejectedWith(r,
                        {ParameterMissing("order_id or order_number"),
                         ParameterMissing("transport_status_name")})
                /\ (/\ identified
                    /\ Truthy(d.transport_status_name)
                    /\ d.transport_status_name[1] \in FiveStatuses)
                   => /\ actor[r].pc = "returned"
                      /\ actor[r].result.success = TRUE
                      /\ actor[r].result.action = Some("modify")
                      /\ actor[r].api = <<"_api_modify_logistics">>

\* a modify with an order_id, no order_number and a listed status was accepted
C6_AcceptedByOrderId ==
    \E r \in Slots :
        /\ Commanded(r, "modify")
        /\ Truthy(actor[r].x.data.order_id)
        /\ ~Truthy(actor[r].x.data.order_number)
        /\ actor[r].result.success = TRUE

----------------------------------------------------------------------------
(* Properties of chat *)

\* chat has entered the stage
Ran(q, stage) == \E i \in 1..Len(q.trace) : q.trace[i] = stage

\* C3: the actor is called in a request exactly when its reasoning returned
\* intent query, modify or insert, whatever the confidence; in a request
\* that did not call it (clarify and unknown among them) there is no actor,
\* no _api_* method entered and no HTTP request.
C3_ActorCalledIffActionable ==
    \A r \in Slots :
        /\ Ran(req[r], "act")
              <=> (/\ req[r].reasoning_result # None
                   /\ req[r].intent \in {"query", "modify", "insert"})
        /\ ~Ran(req[r], "act") => actor[r] = IdleActor

\* a request whose reasoning had confidence 0 has called the actor, and the
\* actor has sent its HTTP request
C3_ActedOnLowConfidence ==
    \E r \in Slots :
        /\ Ran(req[r], "act")
        /\ req[r].reasoning_result # None
        /\ req[r].reasoning_result[1].confidence = 0
        /\ actor[r].http # <<>>

InsertAllRequired == InsertRequired \cup {"occurred_at_str"}

\* C4: an insert command lacking any of order_id, status_description,
\* node_location, occurred_at_str is answered with success=false and an
\* error naming one of the fields it lacks, with no HTTP request sent; the
\* request goes on to the Response stage with that result, raises nothing
\* because of it and, when it returns, returns an envelope.
C4_InsertMissingFieldRejected ==
    \A r \in Slots :
        /\ (Commanded(r, "insert") /\ MissingFields(r, InsertAllRequired) # {})
           => RejectedWith(r, {ParameterMissing(f) :
                                   f \in MissingFields(r, InsertAllRequired)})
        /\ (/\ req[r].execution_result # None
            /\ req[r].execution_result[1].error.kind = "missing")
           => /\ Ran(req[r], "respond")
              /\ req[r].pc \in {"respond", "persist", "done", "cancelled"}
              /\ req[r].raised \in {"", "OperationalError"}
              /\ req[r].pc = "done" => req[r].envelope # None
              /\ (req[r].pc = "done" /\ req[r].raised = "")
                 => req[r].envelope[1].message = req[r].reply_text

\* Scenario D: an insert without node_location has been answered by a reply
C4_NoLocationAnswered ==
    \E r \in Slots :
        /\ req[r].pc = "done"
        /\ req[r].intent = "insert"
        /\ req[r].execution_result
              = Some(Fail(ParameterMissing("node_location")))
        /\ req[r].envelope # None
        /\ req[r].envelope[1].message = ReplyText(req[r].no)

\* C7: a query command without order_number is answered with success=false
\* and no getOrderInfo request is sent, also when it carries an order_id.
C7_QueryNeedsOrderNumber ==
    \A r \in Slots :
        (Commanded(r, "query") /\ ~Truthy(actor[r].x.data.order_number))
        => RejectedWith(r, {ParameterMissing("order_number")})

\* a query that carries an order_id and no order_number was refused
C7_QueryByOrderIdRefused ==
    \E r \in Slots :
        /\ Commanded(r, "query")
        /\ ~Truthy(actor[r].x.data.order_number)
        /\ Truthy(actor[r].x.data.order_id)
        /\ actor[r].pc = "returned"

\* the stages of a request that reached memory.add
FullPipelines ==
    {<<"perceive", "reason", "respond", "persist">>,
     <<"perceive", "reason", "act", "respond", "persist">>}

\* C8: a step of a chat task changes the memory only when the task has run
\* Perceive, Reason, Act where needed and Respond, and then by appending to
\* its own session; every other step of the task (a failure or a
\* cancellation among them) leaves the memory as it is; and no step of a
\* task changes another task or its actor.
C8_MemoryWrittenLast ==
    [][\A r \in Slots :
          (req'[r] # req[r] \/ actor'[r] # actor[r]) =>
            /\ \A q \in Slots \ {r} : req'[q] = req[q] /\ actor'[q] = actor[q]
            /\ store' # store =>
                  /\ req[r].pc = "persist"
                  /\ req[r].trace \in FullPipelines
                  /\ req'[r].pc = "done"
                  /\ req'[r].raised = ""
                  /\ \A k \in MemoryKeys \ {Key(req[r])} : store'[k] = store[k]
                  /\ Len(store'[Key(req[r])]) > Len(store[Key(req[r])])
                  /\ SubSeq(store'[Key(req[r])], 1, Len(store[Key(req[r])]))
                        = store[Key(req[r])]]_vars

\* of two tasks on one session, one was cancelled while awaiting memory.add
\* and the other has returned: the memory holds the one reply
C8_CancelledBesideCompleted ==
    \E r, q \in Slots :
        /\ r # q
        /\ req[r].session_id = req[q].session_id
        /\ req[r].pc = "cancelled"
        /\ Ran(req[r], "persist")
        /\ req[q].pc = "done"
        /\ req[q].raised = ""
        /\ store[Key(req[q])]
              = <<Msg("assistant", req[q].reply_text, "assistant")>>

\* C9 as stated: when chat returns success=true, the memory of its session
\* has been extended by the user's message followed by the assistant reply
\* whose content is the envelope's message.
C9_ExchangeAppended ==
    [][\A r \in Slots :
          (/\ req[r].pc = "persist"
           /\ req'[r].pc = "done"
           /\ req'[r].envelope # None
           /\ req'[r].envelope[1].success)
          => store'[Key(req[r])]
                = store[Key(req[r])]
                    \o <<Msg("user", req[r].content, "user"),
                         Msg("assistant", req'[r].envelope[1].message,
                             "assistant")>>]_vars

\* C10: a request in which an exception was raised inside the pipeline has
\* returned the envelope with success=false and the apology that ends with
\* str(e), and entered no stage after the one that raised.
C10_ExceptionEndsRequest ==
    \A r \in Slots :
        (req[r].raised # "" /\ req[r].pc # "raised") =>
            /\ req[r].pc = "done"
            /\ req[r].envelope # None
            /\ req[r].envelope[1].success = FALSE
            /\ req[r].envelope[1].message = Apology(req[r].raised)
            /\ \/ /\ req[r].trace = <<"perceive", "reason">>
                  /\ actor[r] = IdleActor
                  /\ req[r].execution_result = None
                  /\ req[r].reply_text = ""
               \/ req[r].trace \in FullPipelines

\* the reasoning model call failed and chat has returned
C10_ReasoningRaised ==
    \E r \in Slots :
        /\ req[r].pc = "done"
        /\ req[r].raised = "'NoneType' object has no attribute 'get'"
        /\ req[r].envelope # None
        /\ req[r].envelope[1].success = FALSE

----------------------------------------------------------------------------
(* Properties of chat: failures *)

\* C11 as stated: every chat call that has ended has returned an envelope
\* with a success flag and a message, and none has ended by raising to its
\* caller, a failing initialize or memory construction included.
C11_AlwaysAnEnvelope ==
    \A r \in Slots :
        /\ req[r].pc # "raised"
        /\ req[r].pc = "done" => req[r].envelope # None

\* C12 as stated: a request whose actor returned success=false has run the
\* Response stage and, when it returns, returns an envelope whose success
\* is false.
C12_FailedActionFailsEnvelope ==
    \A r \in Slots :
        (/\ req[r].execution_result # None
         /\ req[r].execution_result[1].success = FALSE)
        => /\ Ran(req[r], "respond")
           /\ req[r].pc = "done" => req[r].envelope[1].success = FALSE

\* C13 as stated: when the HTTP request of a query, modify, modify_node or
\* insert command raised, or was answered with "success": false, the actor
\* returns success=false.
C13_UpstreamFailureReported ==
    \A r \in Slots :
        (/\ actor[r].pc = "returned"
         /\ \/ actor[r].response.kind = "raised"
            \/ actor[r].response.success = "false")
        => actor[r].result.success = FALSE

\* C14 as stated: a request whose reasoning model call failed goes on with
\* intent unknown, calls no actor, runs the Response stage and, when it
\* returns, returns a reply and no exception's apology.
C14_ReasoningFailureRecovered ==
    \A r \in Slots :
        "reason" \in req[r].failed
        => /\ req[r].intent = "unknown"
           /\ ~Ran(req[r], "act")
           /\ Ran(req[r], "respond")
           /\ req[r].pc = "done"
              => req[r].raised \notin {"'NoneType' object has no attribute 'get'"}

\* C15: a request whose perception model call failed has entered the
\* Reason stage with no perception result (no order number, no confidence);
\* nothing was raised into chat by perceive.
C15_PerceptionFailureRecovered ==
    \A r \in Slots :
        "perceive" \in req[r].failed
        => /\ Ran(req[r], "reason")
           /\ req[r].perception_result = None
           /\ req[r].raised # "ModelError"

\* after a failed perception the request has called its actor
C15_ActedAfterFailedPerception ==
    \E r \in Slots :
        /\ "perceive" \in req[r].failed
        /\ Ran(req[r], "act")
        /\ actor[r].pc = "returned"

\* C16: a request whose dialog model call failed has the non-empty apology
\* of format_response as its reply text; when it returns with success, the
\* envelope's message is that text, and no envelope has an empty message.
C16_ResponseFailureApologises ==
    \A r \in Slots :
        "respond" \in req[r].failed
        => /\ req[r].pc \in {"persist", "done", "cancelled"}
           /\ req[r].reply_text # ""
           /\ req[r].reply_text = Apology("ModelError")
           /\ req[r].pc = "done"
              => /\ req[r].envelope[1].message # ""
                 /\ req[r].raised = ""
                    => /\ req[r].envelope[1].success
                       /\ req[r].envelope[1].message = req[r].reply_text

\* a request whose dialog model call failed has returned the apology
C16_ApologyReturned ==
    \E r \in Slots :
        /\ "respond" \in req[r].failed
        /\ req[r].pc = "done"
        /\ req[r].raised = ""
        /\ store[Key(req[r])] # <<>>

----------------------------------------------------------------------------
(* Properties of chat: sessions *)

\* C18: of chat tasks running together, each reads the history of the
\* memory ("default", its own session_id) and appends its reply to that
\* memory alone, and a step of one task changes neither the task, the
\* actor nor the memory of a task with another session_id.
C18_OwnSessionOnly ==
    [][\A r \in Slots :
          LET own == <<"default", req[r].session_id>>
          IN  /\ (req[r].pc = "reason_memory" /\ req'[r].pc = "reason")
                 => req'[r].history = store[own]
              /\ (req[r].pc = "persist" /\ req'[r].pc = "done")
                 => \A k \in MemoryKeys \ {own} : store'[k] = store[k]
              /\ (req'[r] # req[r] \/ actor'[r] # actor[r])
                 => \A q \in Slots \ {r} :
                       /\ req'[q] = req[q]
                       /\ actor'[q] = actor[q]
                       /\ (req[q].pc \in Suspended
                           /\ req[q].session_id # req[r].session_id)
                          => store'[<<"default", req[q].session_id>>]
                                = store[<<"default", req[q].session_id>>]]_vars

\* a task on one session has read an empty history after a task on another
\* session, started later, has stored its reply
C18_ReadBesideOtherSession ==
    \E r, q \in Slots :
        /\ req[r].session_id # req[q].session_id
        /\ req[q].no > req[r].no
        /\ req[q].pc = "done"
        /\ store[<<"default", req[q].session_id>>] # <<>>
        /\ req[r].pc = "reason"
        /\ req[r].history = <<>>

\* C19: of chat tasks running together on one session, each that completes
\* appends its reply to the end of the session's history as it completes,
\* and nothing else changes a history except clearing it: the replies stand
\* in completion order, none lost, none twice.
C19_RepliesInCompletionOrder ==
    [][/\ \A r \in Slots :
            (req[r].pc = "persist" /\ req'[r].pc = "done"
                /\ req'[r].raised = "")
            => store'[<<"default", req[r].session_id>>]
                  = Append(store[<<"default", req[r].session_id>>],
                           Msg("assistant", req'[r].envelope[1].message,
                               "assistant"))
       /\ store' # store
          => \/ \E r \in Slots :
                  req[r].pc = "persist" /\ req'[r].pc = "done"
                      /\ req'[r].raised = ""
             \/ \E k \in MemoryKeys : store' = [store EXCEPT ![k] = <<>>]]_vars

\* of two tasks on one session the one started later completed first: its
\* reply stands first in the history
C19_LaterStartedFirstStored ==
    \E r, q \in Slots :
        /\ r # q
        /\ req[r].session_id = req[q].session_id
        /\ req[q].no > req[r].no
        /\ req[r].pc = "done" /\ req[r].raised = ""
        /\ req[q].pc = "done" /\ req[q].raised = ""
        /\ store[<<"default", req[r].session_id>>]
              = <<Msg("assistant", req[q].reply_text, "assistant"),
                  Msg("assistant", req[r].reply_text, "assistant")>>

----------------------------------------------------------------------------
(* Properties of SessionManager *)

\* the pair a SessionManager call names
Named(c) == <<c.user_id, c.session_id>>

\* C17 as stated: the memory a call obtains from get_session_memory is
\* bound to the user_id and session_id the call names, and the add_message
\* or clear_session of a call changes the history of no other pair.
C17_PairsIsolated ==
    [][\A t \in Callers :
          /\ task'[t].memory # NoMemory
             => Bound(memories'[task'[t].memory]) = Named(task'[t])
          /\ (task[t].pc \in {"add", "drop"} /\ task'[t].pc # task[t].pc)
             => \A k \in MemoryKeys \ {Named(task[t])} : store'[k] = store[k]]_vars

\* C20 as stated: get_session_history (of SessionManager and of
\* LogisticsService) returns for a pair exactly the messages that
\* add_message has appended to that pair since it was last cleared, in the
\* order of the appends.
C20_HistoryIsWhatWasAppended ==
    [][\A t \in Callers :
          (task[t].pc \in {"get", "service_get"} /\ task'[t].pc = "returned")
          => task'[t].history = appended[Named(task[t])]]_vars

\* C21 as stated: clear_session is destructive and idempotent: when it
\* returns, the history of the pair it names is empty (nothing having been
\* appended to that pair since its drop), also when the session was empty
\* or never used, and when it is called twice in a row or as two concurrent
\* calls.
C21_ClearEmptiesHistory ==
    [][\A t \in Callers :
          (/\ task[t].pc = "dropped" /\ task'[t].pc = "returned"
           /\ appended[Named(task[t])] = <<>>)
          => store'[Named(task[t])] = <<>>]_vars

----------------------------------------------------------------------------
(* Properties of the session history *)

\* every message of ms is in the history h
Contains(h, ms) == \A i \in 1..Len(ms) : \E j \in 1..Len(h) : h[j] = ms[i]

\* C22: the replies that completed requests have appended to a session since
\* clear_session was last called for it are contained in the history that
\* the Reasoning stage of a later request reads, and in the history that
\* get_session_history returns for the session.
C22_RepliesReadUntilCleared ==
    [][/\ \A r \in Slots :
             (req[r].pc = "reason_memory" /\ req'[r].pc = "reason")
             => Contains(req'[r].history, appended[Key(req[r])])
       /\ \A t \in Callers :
             (task[t].pc = "service_get" /\ task'[t].pc = "returned")
             => Contains(task'[t].history, appended[Named(task[t])])]_vars

\* the second request and get_session_history have read the reply to the
\* first request
C22_ReplyReadByBoth ==
    LET first == Msg("assistant", ReplyText(1), "assistant")
    IN  /\ req[1].no = 2 /\ req[1].pc = "reason"
        /\ Contains(req[1].history, <<first>>)
        /\ task[1].pc = "returned"
        /\ Contains(task[1].history, <<first>>)

----------------------------------------------------------------------------
(* Properties of modify_node, insert, modify and query commands *)

\* the fields of a logistics node that a modify_node may change
MutableFields ==
    {"node_location", "status_description", "operator", "vehicle_plate",
     "occurred_at_str", "remark", "content"}

\* the actor of task r has sent the request of path, or is through with it
Requested(r, path) ==
    /\ actor[r].pc \in {"http", "returned"}
    /\ actor[r].http # <<>>
    /\ actor[r].http[1].path = path

\* C23 as stated: a modify_node command with order_id, session_id,
\* tracking_id and at least one mutable field set (its occurred_at_str, when
\* set, well formed) sends the updateLogisticsTrackInfo request, and one
\* with no mutable field is answered with success=false and sends none.
C23_OneMutableFieldSuffices ==
    \A r \in Slots :
        (/\ Commanded(r, "modify_node")
         /\ MissingFields(r, {"order_id", "session_id", "tracking_id"}) = {})
        => LET data == actor[r].x.data
           IN  /\ (/\ MissingFields(r, MutableFields) # MutableFields
                   /\ Truthy(data.occurred_at_str)
                      => re_match(date_pattern, data.occurred_at_str[1]))
                  => Requested(r, "/orderInfoService/updateLogisticsTrackInfo")
               /\ (\A f \in MutableFields : data[f] = None)
                  => (actor[r].pc = "returned"
                      => /\ actor[r].result.success = FALSE
                         /\ actor[r].http = <<>>)

\* the optional keys of the updateLogisticsTrackInfo payload and the fields
\* of the command they are taken from
OptionalPayload ==
    {<<"statusDescription", "status_description">>, <<"operator", "operator">>,
     <<"vehiclePlate", "vehicle_plate">>, <<"occurredAtStr", "occurred_at_str">>,
     <<"remark", "remark">>, <<"content", "content">>}

\* C24: the updateLogisticsTrackInfo request of a modify_node command holds
\* an optional key only if the field is non-null in the command, with the
\* value of the command, which is the value of the ReasoningResult: no
\* stage supplies a value for a field that the ReasoningResult leaves null.
C24_OptionalFieldsNotSupplied ==
    \A r \in Slots :
        (/\ req[r].pc = "act"
         /\ Requested(r, "/orderInfoService/updateLogisticsTrackInfo"))
        => LET payload == actor[r].http[1]
               data == actor[r].x.data
               rr == req[r].reasoning_result[1]
           IN  \A kf \in OptionalPayload :
                  /\ kf[1] \in payload.keys
                     => /\ data[kf[2]] # None
                        /\ payload.val[kf[1]] = data[kf[2]]
                        /\ rr[kf[2]] = data[kf[2]]
                  /\ rr[kf[2]] = None
                     => kf[1] \notin payload.keys /\ data[kf[2]] = None

\* a modify_node request was sent with the status description of the
\* ReasoningResult and without an operator, which the ReasoningResult lacks
C24_SentWithoutOperator ==
    \E r \in Slots :
        /\ req[r].pc = "act"
        /\ Requested(r, "/orderInfoService/updateLogisticsTrackInfo")
        /\ req[r].reasoning_result[1].status_description = Some("arrived")
        /\ req[r].reasoning_result[1].operator = None
        /\ actor[r].http[1].val["statusDescription"] = Some("arrived")
        /\ "operator" \notin actor[r].http[1].keys

\* C25 as stated: an insert command without a session_id is answered with
\* success=false, as one lacking order_id, status_description,
\* node_location or occurred_at_str is, and no insertLogisticsTrackInfo
\* request is sent for it.
C25_InsertWithoutSessionRejected ==
    \A r \in Slots :
        (Commanded(r, "insert") /\ ~Truthy(actor[r].x.data.session_id))
        => /\ actor[r].pc = "returned"
           /\ actor[r].result.success = FALSE
           /\ actor[r].api = <<>>
           /\ actor[r].http = <<>>

\* C26 as stated: a modify command that passes validation sends the
\* updateOrderInfo request to the business system, and success is reported
\* for a modify command only when that request has been sent.
C26_ModifyCallsUpdateOrderInfo ==
    \A r \in Slots :
        LET data == actor[r].x.data
        IN  (/\ Commanded(r, "modify")
             /\ \/ /\ Truthy(data.order_id) \/ Truthy(data.order_number)
                   /\ Truthy(data.transport_status_name)
                   /\ InList(data.transport_status_name[1], valid_statuses)
                \/ actor[r].pc = "returned" /\ actor[r].result.success)
            => Requested(r, "/orderInfoService/updateOrderInfo")

\* C27: the data of the ActionResult of an accepted modify command carries
\* the session_id of the chat request that produced the command.
C27_SessionIdEchoed ==
    \A r \in Slots :
        /\ (/\ req[r].pc = "act" /\ actor[r].pc = "returned"
            /\ actor[r].result.action = Some("modify"))
           => actor[r].result.data.session_id = Some(req[r].session_id)
        /\ (/\ req[r].execution_result # None
            /\ req[r].execution_result[1].action = Some("modify"))
           => req[r].execution_result[1].data.session_id
                    = Some(req[r].session_id)

\* requests of two sessions each hold the result of their modify command
C27_ModifiedInTwoSessions ==
    \E r, q \in Slots :
        /\ req[r].session_id = "s1" /\ req[q].session_id = "s2"
        /\ \A t \in {r, q} :
              /\ req[t].execution_result # None
              /\ req[t].execution_result[1].action = Some("modify")
              /\ req[t].execution_result[1].success

\* C28: when the getOrderInfo request of a query command fails (the request
\* raises, or its response cannot be read), the actor returns success=false
\* with the message of the error, the request goes on without an exception,
\* and the request was sent exactly once.
C28_QueryFailureWrappedOnce ==
    \A r \in Slots :
        (/\ Commanded(r, "query") /\ actor[r].pc = "returned"
         /\ actor[r].response.kind \in {"raised", "not_json"})
        => /\ actor[r].result.success = FALSE
           /\ actor[r].result.error
                 \in {Raised("ConnectError"), InstructionFormatError}
           /\ actor[r].api = <<"_api_query_logistics">>
           /\ Len(actor[r].http) = 1
           /\ actor[r].http[1].path = "/orderInfoService/getOrderInfo"
           /\ req[r].pc = "act" /\ req[r].raised = ""

\* the getOrderInfo request of a query raised and the actor has returned
C28_QueryRequestRaised ==
    \E r \in Slots :
        /\ Commanded(r, "query") /\ actor[r].pc = "returned"
        /\ actor[r].response = TransportError
        /\ actor[r].result = Fail(Raised("ConnectError"))
        /\ req[r].pc = "act"

\* the actions reply dispatches on
KnownActions == {Some("query"), Some("modify"), Some("modify_node"), Some("insert")}

\* the kinds of error by which a handler refuses a command it has validated
ValidationErrorKinds == {"missing", "invalid_status", "date_format"}

\* C29: a command whose action is none of query, modify, modify_node,
\* insert is answered with success=false and the error of an unknown action
\* that names the action, no _api_* method is entered and no HTTP request
\* is sent, and the error is none of the validation errors.
C29_UnknownActionRejected ==
    \A r \in Slots :
        (/\ actor[r].pc \in {"http", "returned"}
         /\ actor[r].x.kind = "object"
         /\ actor[r].x.data.action \notin KnownActions)
        => LET action == actor[r].x.data.action
           IN  /\ RejectedWith(r, {UnknownAction(action)})
               /\ actor[r].result.error.kind \notin ValidationErrorKinds
               /\ actor[r].result.error.detail
                     = (IF action = None THEN "None" ELSE action[1])

\* the command "delete" was refused as an unknown action
C29_DeleteRefused ==
    \E r \in Slots :
        /\ actor[r].pc = "returned"
        /\ actor[r].x.kind = "object"
        /\ actor[r].x.data.action = Some("delete")
        /\ actor[r].result.error = [kind |-> "unknown_action", detail |-> "delete"]
        /\ actor[r].http = <<>>

----------------------------------------------------------------------------
(* Properties of the ReasoningResult *)

\* C30 as stated: a ReasoningResult with intent clarify that chat hands to
\* the Response stage has a clarification_questions list that is not empty.
C30_ClarifyHasQuestions ==
    \A r \in Slots :
        (/\ Ran(req[r], "respond")
         /\ req[r].reasoning_result # None
         /\ req[r].reasoning_result[1].intent = "clarify")
        => req[r].reasoning_result[1].clarification_questions # <<>>

----------------------------------------------------------------------------
(* Properties of the orchestration *)

\* C31 as stated: chat sends the actor a modify_node command only when the
\* reasoning intent is modify and modify_type is modify_node; for intent
\* query the action of the command is query and for intent insert it is
\* insert, whatever modify_type holds.
C31_ActionFollowsIntent ==
    \A r \in Slots :
        (req[r].pc = "act" /\ actor[r].x.kind = "object")
        => LET rr == req[r].reasoning_result[1]
               action == actor[r].x.data.action
           IN  /\ action = Some("modify_node")
                  => rr.intent = "modify" /\ rr.modify_type = Some("modify_node")
               /\ rr.intent = "query" => action = Some("query")
               /\ rr.intent = "insert" => action = Some("insert")

\* the orders in which chat enters its stages
StageOrders ==
    {<<"perceive", "reason", "act", "respond", "persist">>,
     <<"perceive", "reason", "respond", "persist">>}

\* t is an initial part of o
IsPrefix(t, o) == Len(t) <= Len(o) /\ \A i \in 1..Len(t) : t[i] = o[i]

\* C32: within a request the stages are entered in the order Perceive,
\* Reason, Act (optional), Respond, Persist, each at most once; a request
\* that is in a stage has entered it last, Respond after Act is entered with
\* the result the actor returned, and the actor is called only in Act.
C32_StagesInOrder ==
    \A r \in Slots :
        /\ \E o \in StageOrders : IsPrefix(req[r].trace, o)
        /\ req[r].pc \in Suspended
           => req[r].trace[Len(req[r].trace)]
                 = (IF req[r].pc = "reason_memory" THEN "reason" ELSE req[r].pc)
        /\ (Ran(req[r], "act") /\ Ran(req[r], "respond"))
           => req[r].execution_result # None
        /\ actor[r].pc \in {"called", "http"} => req[r].pc = "act"

\* a request that has entered all five stages has returned
C32_AllStagesRun ==
    \E r \in Slots :
        /\ req[r].pc = "done" /\ req[r].raised = ""
        /\ req[r].trace = <<"perceive", "reason", "act", "respond", "persist">>

\* an exception was raised under reply in the call of task r: by json.loads,
\* by data.get on a value that is no object, by the HTTP request, by
\* response.json() or by result.get on a response that is no object
Threw(r) ==
    LET action == actor[r].x.data.action
        resp == actor[r].response
    IN  \/ actor[r].x.kind # "object"
        \/ resp.kind = "raised"
        \/ resp.kind = "not_json" /\ action \in {Some("query"), Some("insert")}
        \/ resp.kind = "array" /\ action = Some("insert")

\* C33: whatever the content of the command, reply returns a message: for
\* text that is not JSON, JSON that is no object, an unknown action, and a
\* handler or request that raised, the message has success=false and an
\* error text.
C33_ReplyAlwaysAnswers ==
    \A r \in Slots :
        actor[r].pc = "returned"
        => ((Threw(r) \/ actor[r].x.data.action \notin KnownActions)
            => /\ actor[r].result.success = FALSE
               /\ actor[r].result.error.kind
                     \in {"instruction_format", "exception", "unknown_action"})

\* reply has answered an insert whose handler raised on a response that is
\* no object
C33_AnsweredAfterException ==
    /\ actor[1].pc = "returned"
    /\ actor[1].x.kind = "object"
    /\ actor[1].x.data.action = Some("insert")
    /\ actor[1].response.kind = "array"
    /\ actor[1].result = Fail(Raised("'list' object has no attribute 'get'"))

----------------------------------------------------------------------------
(* Properties of the Reasoning prompt *)

\* C34: the prompt of the Reasoning stage embeds at most 3 messages of the
\* history of the session: the most recent ones, in their stored order, and
\* no older message.
C34_PromptHasLastThree ==
    \A r \in Slots :
        req[r].pc = "reason"
        => LET h == req[r].history
               p == req[r].recent
           IN  /\ Len(p) <= 3
               /\ Len(p) = (IF Len(h) < 3 THEN Len(h) ELSE 3)
               /\ \A i \in 1..Len(p) : p[i] = h[Len(h) - Len(p) + i]

\* a prompt was built from a history of five messages or more, the reply of
\* the request before among them
C34_OlderMessagesLeftOut ==
    \E r \in Slots :
        /\ req[r].pc = "reason" /\ req[r].no = 2
        /\ Len(req[r].history) >= 5
        /\ req[r].recent[3] = Msg("assistant", ReplyText(1), "assistant")
        /\ req[r].recent[1] # req[r].history[1]

----------------------------------------------------------------------------
(* Properties of the shared resources *)

\* C35 as stated: clear_session and get_session_history of LogisticsService
\* succeed for a session that was never used, in any order relative to chat
\* and initialize, also before the first chat or initialize call: no such
\* call ends with an exception.
C35_ReadersNeedNoInitialize ==
    \A t \in Callers : task[t].pc # "raised"

\* task r runs the body of initialize in this step: it enters its pipeline
\* and has not found _initialized true when chat was called
Creates(r) ==
    /\ req[r].pc # "perceive" /\ req'[r].pc = "perceive"
    /\ ~initialized \/ req[r].pc # "idle"

\* C36: the shared resources are created at most once: _initialized, once
\* true, stays true, a chat request creates them only while _initialized is
\* false, and of the chat requests in flight no second one creates them
\* after the first has.
C36_InitializedOnce ==
    [][/\ initialized => initialized'
       /\ \A r \in Slots : Creates(r) => ~initialized /\ initialized']_vars

\* two chat requests are in flight on the resources the first has created
C36_TwoRequestsOneInitialize ==
    /\ initialized
    /\ req[1].pc \in Suspended /\ req[2].pc \in Suspended
    /\ req[1].no = 1 /\ req[2].no = 2

----------------------------------------------------------------------------
(* Properties of the keys of the session memory *)

\* C37: a chat request for session_id s reads and writes the history of
\* ("default", s) and no other, so that requests with the same session_id
\* share it; get_session_history for s with another user_id returns nothing
\* of what chat wrote, and clear_session for s with another user_id leaves
\* the history of ("default", s) as it is.
C37_ChatUsesDefaultUser ==
    [][/\ \A r \in Slots :
             /\ (req[r].pc = "reason_memory" /\ req'[r].pc = "reason")
                => req'[r].history = store[<<"default", req[r].session_id>>]
             /\ (req[r].pc = "persist" /\ req'[r].pc = "done"
                    /\ req'[r].raised = "")
                => /\ store'[<<"default", req[r].session_id>>]
                        = store[<<"default", req[r].session_id>>]
                            \o <<Msg("assistant", req[r].reply_text, "assistant")>>
                   /\ \A k \in MemoryKeys \ {<<"default", req[r].session_id>>} :
                         store'[k] = store[k]
       /\ \A t \in Callers :
             (/\ task[t].pc = "service_get" /\ task'[t].pc = "returned"
              /\ task[t].user_id # "default")
             => \A i \in 1..Len(task'[t].history) :
                   ~Contains(appended[<<"default", task[t].session_id>>],
                             <<task'[t].history[i]>>)
       /\ \A u \in Users \ {"default"}, sid \in SessionIds :
             clear_session(sid, u)
             => store'[<<"default", sid>>] = store[<<"default", sid>>]]_vars

\* the second request on "s1" has read the reply to the first, which
\* get_session_history for ("u1", "s1") has not returned
C37_SharedBySessionIdOnly ==
    /\ req[1].no = 2 /\ req[1].pc = "reason"
    /\ req[1].history = <<Msg("assistant", ReplyText(1), "assistant")>>
    /\ task[1].pc = "returned" /\ task[1].user_id = "u1"
    /\ task[1].history = <<>>
    /\ calls > 0

\* the objects constructed for pair p, and those of them in the cache
ObjectsOf(p) == {i \in 1..Len(memories) : Bound(memories[i]) = p}

HeldOf(p) == ObjectsOf(p) \cap Held

\* C38: the cache never holds two memory objects of one (user_id,
\* session_id); a call of get_session_memory for a pair whose object is in
\* the cache returns that object and constructs none, and a call for a
\* pair whose object was removed by clear_session or close_all constructs
\* a new object for the pair and returns it.
C38_OneMemoryPerPair ==
    [][\A t \in Callers :
          (task[t].pc = "idle" /\ task'[t].pc \in {"add", "get", "drop"})
          => LET p == Named(task'[t])
             IN  /\ Cardinality(HeldOf(p)) <= 1
                 /\ HeldOf(p) # {}
                    => task'[t].memory \in HeldOf(p) /\ memories' = memories
                 /\ (ObjectsOf(p) # {} /\ HeldOf(p) = {})
                    => /\ task'[t].memory = Len(memories) + 1
                       /\ Len(memories') = Len(memories) + 1
                       /\ Bound(memories'[Len(memories')]) = p]_vars

\* close_all returns in this step to caller t
CloseAllReturns(t) ==
    /\ task[t].pc \in {"idle", "closing", "dispose"}
    /\ task'[t].pc = "returned"

\* C39: when close_all returns, the cache holds no object and every
\* memory object constructed so far (each was put in the cache when it was
\* constructed) has been closed, whatever get_session_memory, add_message
\* and clear_session did before or during the call.
C39_AllClosedAfterCloseAll ==
    [][\A t \in Callers :
          CloseAllReturns(t)
          => /\ Held' = {}
             /\ \A i \in 1..Len(memories') : memories'[i].closed]_vars

====
